---- MODULE Spec2Model ----
(***************************************************************************)
(* Verification model of PLSLAM::MapHandler (src/src/mapHandler.cpp).      *)
(*                                                                         *)
(* Two groups of state are modelled:                                       *)
(*  - the pipeline controller (caller thread, handlerThread,               *)
(*    localMappingThread, killThreads) with its queue, condition           *)
(*    variables and thread positions: specification SpecMT;                *)
(*  - the Map Store (keyframe features, landmarks, anchor indices,         *)
(*    covisibility matrix) and the loop corrector: specifications          *)
(*    SpecMap and SpecFuse.                                                *)
(***************************************************************************)
EXTENDS Integers, Sequences, FiniteSets, TLC

\* ------------------------------------------------------------------ bounds
\* number of addKeyFrame calls explored in the pipeline model
MaxKFMT == 2

\* ------------------------------------------------------------------ values
NULL == -1

LBA_IDLE == "LBA_IDLE"
LBA_ACTIVE == "LBA_ACTIVE"
LBA_TERMINATED == "LBA_TERMINATED"
LBAStatus == {LBA_IDLE, LBA_ACTIVE, LBA_TERMINATED}

Caller == "caller"
Handler == "handler"
Worker == "worker"
Threads == {Caller, Handler, Worker}

VARIABLES
    \* ---- pipeline controller
    threads_started,    \* MapHandler::threads_started
    kf_queue,           \* std::list of (curr, prev) pairs, (NULL, NULL) is the sentinel
    curr_kf_mt,         \* pair handed to the local-mapping worker
    prev_kf_mt,
    lba_thread_status,  \* guarded by lba_mutex
    curr_kf,            \* this->curr_kf, written by addKeyFrame
    prev_kf,            \* this->prev_kf
    max_kf_idx,
    graph_size,         \* full_graph.size() == conf_matrix.size()
    n_keyframes,        \* map_keyframes.size()
    pc,                 \* position of each thread
    new_kf,             \* threads blocked in new_kf.wait
    lba_start,          \* threads blocked in lba_start.wait
    lba_join,           \* threads blocked in lba_join.wait
    enqueued,           \* history: pairs pushed by addKeyFrame_multiThread
    mt_log,             \* history: per worker pass, the pair dequeued and the pair matched
    \* ---- Map Store and loop corrector
    ms,                 \* the Map Store: keyframe features, landmarks, anchor indices, graphs
    mpc,                \* position inside addKeyFrame / the worker pass
    build               \* SlamConfig::multithreadSLAM() and the USE_LINE_PLUKER build flag

mtVars == <<threads_started, kf_queue, curr_kf_mt, prev_kf_mt, lba_thread_status,
            curr_kf, prev_kf, max_kf_idx, graph_size, n_keyframes, pc,
            new_kf, lba_start, lba_join, enqueued, mt_log>>

mapVars == <<ms, mpc, build>>

vars == <<mtVars, mapVars>>

\* ------------------------------------------------------------------ pipeline: construction
\* State after the constructor: no thread exists, lba_thread_status has not been
\* written yet (it is first written by startThreads), the map is empty.
InitMT ==
    /\ threads_started = FALSE
    /\ kf_queue = <<>>
    /\ curr_kf_mt = NULL
    /\ prev_kf_mt = NULL
    /\ lba_thread_status \in LBAStatus
    /\ curr_kf = NULL
    /\ prev_kf = NULL
    /\ max_kf_idx = 0
    /\ graph_size = 0
    /\ n_keyframes = 0
    /\ pc = [t \in Threads |-> IF t = Caller THEN "initialize" ELSE "unborn"]
    /\ new_kf = {}
    /\ lba_start = {}
    /\ lba_join = {}
    /\ enqueued = <<>>
    /\ mt_log = <<>>
    /\ ms = <<>>
    /\ mpc = "off"
    /\ build = [multithread |-> TRUE, pluker |-> FALSE]

Goto(t, l) == pc' = [pc EXCEPT ![t] = l]

\* condition_variable::notify_one on the waiter set cv: wakes one blocked thread,
\* which then re-acquires the mutex and re-evaluates its predicate at label wake[t].
NotifyOne(cv, me, next, wake) ==
    IF cv = {}
    THEN /\ Goto(me, next)
         /\ UNCHANGED <<new_kf, lba_start, lba_join>>
    ELSE \E w \in cv :
            /\ pc' = [pc EXCEPT ![me] = next, ![w] = wake[w]]
            /\ new_kf' = new_kf \ {w}
            /\ lba_start' = lba_start \ {w}
            /\ lba_join' = lba_join \ {w}


\* ------------------------------------------------------------------ pipeline: caller thread
\* initialize(kf0): resets the map, inserts keyframe 0, then startThreads().
\* startThreads: threads_started = true; the handler thread is created first.
M_Initialize ==
    /\ pc[Caller] = "initialize"
    /\ curr_kf' = 0
    /\ max_kf_idx' = 0
    /\ graph_size' = 1
    /\ n_keyframes' = 1
    /\ threads_started' = TRUE
    /\ pc' = [pc EXCEPT ![Caller] = "st_status", ![Handler] = "h_entry"]
    /\ UNCHANGED <<kf_queue, curr_kf_mt, prev_kf_mt, lba_thread_status, prev_kf,
                   new_kf, lba_start, lba_join, enqueued, mt_log>>
    /\ UNCHANGED mapVars

\* startThreads: { lock_guard lk(lba_mutex); lba_thread_status = LBA_IDLE; }
M_StartSetIdle ==
    /\ pc[Caller] = "st_status"
    /\ lba_thread_status' = LBA_IDLE
    /\ Goto(Caller, "st_spawn")
    /\ UNCHANGED <<threads_started, kf_queue, curr_kf_mt, prev_kf_mt, curr_kf, prev_kf,
                   max_kf_idx, graph_size, n_keyframes, new_kf, lba_start, lba_join,
                   enqueued, mt_log>>
    /\ UNCHANGED mapVars

\* startThreads: std::thread localMapping(...); detach
M_StartSpawnWorker ==
    /\ pc[Caller] = "st_spawn"
    /\ pc' = [pc EXCEPT ![Caller] = "idle", ![Worker] = "w_entry"]
    /\ UNCHANGED <<threads_started, kf_queue, curr_kf_mt, prev_kf_mt, lba_thread_status,
                   curr_kf, prev_kf, max_kf_idx, graph_size, n_keyframes,
                   new_kf, lba_start, lba_join, enqueued, mt_log>>
    /\ UNCHANGED mapVars

\* addKeyFrame in pipeline mode, up to the call of addKeyFrame_multiThread:
\* this->prev_kf/curr_kf are advanced, the graphs are expanded, the keyframe gets
\* its index and is pushed to map_keyframes, all on the caller thread.
M_AddKeyFrame ==
    /\ pc[Caller] = "idle"
    /\ max_kf_idx < MaxKFMT
    /\ prev_kf' = curr_kf
    /\ curr_kf' = max_kf_idx + 1
    /\ graph_size' = graph_size + 1
    /\ max_kf_idx' = max_kf_idx + 1
    /\ n_keyframes' = n_keyframes + 1
    /\ Goto(Caller, "akf_enqueue")
    /\ UNCHANGED <<threads_started, kf_queue, curr_kf_mt, prev_kf_mt, lba_thread_status,
                   new_kf, lba_start, lba_join, enqueued, mt_log>>
    /\ UNCHANGED mapVars

\* addKeyFrame_multiThread(curr_kf, prev_kf): the local prev_kf is map_keyframes.back()
\* taken before the push, i.e. the keyframe with index max_kf_idx - 1.
M_Enqueue ==
    /\ pc[Caller] = "akf_enqueue"
    /\ IF ~threads_started
       THEN /\ Goto(Caller, "idle")
            /\ UNCHANGED <<kf_queue, enqueued>>
       ELSE /\ kf_queue' = Append(kf_queue, <<max_kf_idx, max_kf_idx - 1>>)
            /\ enqueued' = Append(enqueued, <<max_kf_idx, max_kf_idx - 1>>)
            /\ Goto(Caller, "akf_notify")
    /\ UNCHANGED <<threads_started, curr_kf_mt, prev_kf_mt, lba_thread_status, curr_kf,
                   prev_kf, max_kf_idx, graph_size, n_keyframes, new_kf, lba_start,
                   lba_join, mt_log>>
    /\ UNCHANGED mapVars

WakeLabel == [t \in Threads |->
                 IF t = Handler THEN (IF Handler \in new_kf THEN "h_qwake" ELSE "h_jwake")
                 ELSE IF t = Worker THEN "w_swake"
                 ELSE "kill_wake"]

\* addKeyFrame_multiThread: new_kf.notify_one()
M_EnqueueNotify ==
    /\ pc[Caller] = "akf_notify"
    /\ NotifyOne(new_kf, Caller, "idle", WakeLabel)
    /\ UNCHANGED <<threads_started, kf_queue, curr_kf_mt, prev_kf_mt, lba_thread_status,
                   curr_kf, prev_kf, max_kf_idx, graph_size, n_keyframes, enqueued, mt_log>>
    /\ UNCHANGED mapVars

\* finishSLAM -> killThreads: if (!threads_started) return; threads_started = false
M_KillThreads ==
    /\ pc[Caller] = "idle"
    /\ IF ~threads_started
       THEN /\ Goto(Caller, "done")
            /\ UNCHANGED threads_started
       ELSE /\ threads_started' = FALSE
            /\ Goto(Caller, "kill_push")
    /\ UNCHANGED <<kf_queue, curr_kf_mt, prev_kf_mt, lba_thread_status, curr_kf, prev_kf,
                   max_kf_idx, graph_size, n_keyframes, new_kf, lba_start, lba_join,
                   enqueued, mt_log>>
    /\ UNCHANGED mapVars

\* killThreads: kf_queue.push_back(make_pair(nullptr, nullptr)) under kf_queue_mutex
M_KillPush ==
    /\ pc[Caller] = "kill_push"
    /\ kf_queue' = Append(kf_queue, <<NULL, NULL>>)
    /\ Goto(Caller, "kill_notify")
    /\ UNCHANGED <<threads_started, curr_kf_mt, prev_kf_mt, lba_thread_status, curr_kf,
                   prev_kf, max_kf_idx, graph_size, n_keyframes, new_kf, lba_start,
                   lba_join, enqueued, mt_log>>
    /\ UNCHANGED mapVars

\* killThreads: new_kf.notify_one()
M_KillNotify ==
    /\ pc[Caller] = "kill_notify"
    /\ NotifyOne(new_kf, Caller, "kill_join", WakeLabel)
    /\ UNCHANGED <<threads_started, kf_queue, curr_kf_mt, prev_kf_mt, lba_thread_status,
                   curr_kf, prev_kf, max_kf_idx, graph_size, n_keyframes, enqueued, mt_log>>
    /\ UNCHANGED mapVars

\* killThreads: unique_lock lba_lk(lba_mutex);
\* if (status != LBA_TERMINATED) lba_join.wait(lba_lk, status == LBA_TERMINATED)
\* (also the re-evaluation of the predicate after a wake-up)
M_KillJoin ==
    /\ pc[Caller] \in {"kill_join", "kill_wake"}
    /\ IF lba_thread_status = LBA_TERMINATED
       THEN /\ Goto(Caller, "done")
            /\ UNCHANGED lba_join
       ELSE /\ lba_join' = lba_join \cup {Caller}
            /\ Goto(Caller, "kill_wait")
    /\ UNCHANGED <<threads_started, kf_queue, curr_kf_mt, prev_kf_mt, lba_thread_status,
                   curr_kf, prev_kf, max_kf_idx, graph_size, n_keyframes, new_kf,
                   lba_start, enqueued, mt_log>>
    /\ UNCHANGED mapVars


\* ------------------------------------------------------------------ pipeline: handlerThread
\* if (!threads_started) return;
H_Entry ==
    /\ pc[Handler] = "h_entry"
    /\ Goto(Handler, IF threads_started THEN "h_lock" ELSE "done")
    /\ UNCHANGED <<threads_started, kf_queue, curr_kf_mt, prev_kf_mt, lba_thread_status,
                   curr_kf, prev_kf, max_kf_idx, graph_size, n_keyframes, new_kf,
                   lba_start, lba_join, enqueued, mt_log>>
    /\ UNCHANGED mapVars

\* unique_lock lk(kf_queue_mutex); if (kf_queue.empty()) new_kf.wait(lk, !kf_queue.empty());
\* curr_kf_mt = front().first; prev_kf_mt = front().second; pop_front(); lk.unlock();
\* (also the re-evaluation of the predicate after a wake-up)
H_Dequeue ==
    /\ pc[Handler] \in {"h_lock", "h_qwake"}
    /\ IF kf_queue = <<>>
       THEN /\ new_kf' = new_kf \cup {Handler}
            /\ Goto(Handler, "h_qwait")
            /\ UNCHANGED <<kf_queue, curr_kf_mt, prev_kf_mt>>
       ELSE /\ curr_kf_mt' = Head(kf_queue)[1]
            /\ prev_kf_mt' = Head(kf_queue)[2]
            /\ kf_queue' = Tail(kf_queue)
            /\ Goto(Handler, "h_setactive")
            /\ UNCHANGED new_kf
    /\ UNCHANGED <<threads_started, lba_thread_status, curr_kf, prev_kf, max_kf_idx,
                   graph_size, n_keyframes, lba_start, lba_join, enqueued, mt_log>>
    /\ UNCHANGED mapVars

\* { lock_guard lk(lba_mutex); lba_thread_status = LBA_ACTIVE; }
H_SetActive ==
    /\ pc[Handler] = "h_setactive"
    /\ lba_thread_status' = LBA_ACTIVE
    /\ Goto(Handler, "h_notify")
    /\ UNCHANGED <<threads_started, kf_queue, curr_kf_mt, prev_kf_mt, curr_kf, prev_kf,
                   max_kf_idx, graph_size, n_keyframes, new_kf, lba_start, lba_join,
                   enqueued, mt_log>>
    /\ UNCHANGED mapVars

\* lba_start.notify_one();
H_NotifyStart ==
    /\ pc[Handler] = "h_notify"
    /\ NotifyOne(lba_start, Handler, "h_check", WakeLabel)
    /\ UNCHANGED <<threads_started, kf_queue, curr_kf_mt, prev_kf_mt, lba_thread_status,
                   curr_kf, prev_kf, max_kf_idx, graph_size, n_keyframes, enqueued, mt_log>>
    /\ UNCHANGED mapVars

\* if (curr_kf_mt == nullptr || prev_kf_mt == nullptr) return;
H_CheckSentinel ==
    /\ pc[Handler] = "h_check"
    /\ Goto(Handler, IF curr_kf_mt = NULL \/ prev_kf_mt = NULL THEN "done" ELSE "h_join")
    /\ UNCHANGED <<threads_started, kf_queue, curr_kf_mt, prev_kf_mt, lba_thread_status,
                   curr_kf, prev_kf, max_kf_idx, graph_size, n_keyframes, new_kf,
                   lba_start, lba_join, enqueued, mt_log>>
    /\ UNCHANGED mapVars

\* H_Join without the wait on lba_join: the dispatcher goes on to the next entry at once.
H_JoinNoWait ==
    /\ pc[Handler] \in {"h_join", "h_jwake"}
    /\ Goto(Handler, "h_lock")
    /\ UNCHANGED <<threads_started, kf_queue, curr_kf_mt, prev_kf_mt, lba_thread_status,
                   curr_kf, prev_kf, max_kf_idx, graph_size, n_keyframes, new_kf,
                   lba_start, lba_join, enqueued, mt_log>>
    /\ UNCHANGED mapVars

\* unique_lock lba_lk(lba_mutex);
\* if (status != LBA_IDLE) lba_join.wait(lba_lk, status == LBA_IDLE);   then next iteration
H_Join ==
    /\ pc[Handler] \in {"h_join", "h_jwake"}
    /\ IF lba_thread_status = LBA_IDLE
       THEN /\ Goto(Handler, "h_lock")
            /\ UNCHANGED lba_join
       ELSE /\ lba_join' = lba_join \cup {Handler}
            /\ Goto(Handler, "h_jwait")
    /\ UNCHANGED <<threads_started, kf_queue, curr_kf_mt, prev_kf_mt, lba_thread_status,
                   curr_kf, prev_kf, max_kf_idx, graph_size, n_keyframes, new_kf,
                   lba_start, enqueued, mt_log>>
    /\ UNCHANGED mapVars

\* ------------------------------------------------------------------ pipeline: localMappingThread
\* if (!threads_started) return;
W_Entry ==
    /\ pc[Worker] = "w_entry"
    /\ Goto(Worker, IF threads_started THEN "w_lock" ELSE "done")
    /\ UNCHANGED <<threads_started, kf_queue, curr_kf_mt, prev_kf_mt, lba_thread_status,
                   curr_kf, prev_kf, max_kf_idx, graph_size, n_keyframes, new_kf,
                   lba_start, lba_join, enqueued, mt_log>>
    /\ UNCHANGED mapVars

\* lk.lock(); if (status != LBA_ACTIVE) lba_start.wait(lk, status == LBA_ACTIVE); lk.unlock();
W_WaitStart ==
    /\ pc[Worker] \in {"w_lock", "w_swake"}
    /\ IF lba_thread_status = LBA_ACTIVE
       THEN /\ Goto(Worker, "w_check")
            /\ UNCHANGED lba_start
       ELSE /\ lba_start' = lba_start \cup {Worker}
            /\ Goto(Worker, "w_swait")
    /\ UNCHANGED <<threads_started, kf_queue, curr_kf_mt, prev_kf_mt, lba_thread_status,
                   curr_kf, prev_kf, max_kf_idx, graph_size, n_keyframes, new_kf,
                   lba_join, enqueued, mt_log>>
    /\ UNCHANGED mapVars

\* if (curr_kf_mt == nullptr || prev_kf_mt == nullptr) break;
W_CheckSentinel ==
    /\ pc[Worker] = "w_check"
    /\ Goto(Worker, IF curr_kf_mt = NULL \/ prev_kf_mt = NULL THEN "w_term" ELSE "w_match")
    /\ UNCHANGED <<threads_started, kf_queue, curr_kf_mt, prev_kf_mt, lba_thread_status,
                   curr_kf, prev_kf, max_kf_idx, graph_size, n_keyframes, new_kf,
                   lba_start, lba_join, enqueued, mt_log>>
    /\ UNCHANGED mapVars

\* The pair that lookForCommonMatches(kf0, kf1) hands to matchKF2KFPoints and
\* matchKF2KFLines: the body names prev_kf and curr_kf, which are the members
\* this->prev_kf / this->curr_kf, not the parameters kf0 / kf1.
MatchedPair(kf0, kf1) == <<curr_kf, prev_kf>>

\* reset indices of curr_kf_mt; lookForCommonMatches(prev_kf_mt, curr_kf_mt)
W_Match ==
    /\ pc[Worker] = "w_match"
    /\ mt_log' = Append(mt_log, [deq |-> <<curr_kf_mt, prev_kf_mt>>,
                                 used |-> MatchedPair(prev_kf_mt, curr_kf_mt)])
    /\ Goto(Worker, "w_lba")
    /\ UNCHANGED <<threads_started, kf_queue, curr_kf_mt, prev_kf_mt, lba_thread_status,
                   curr_kf, prev_kf, max_kf_idx, graph_size, n_keyframes, new_kf,
                   lba_start, lba_join, enqueued>>
    /\ UNCHANGED mapVars

\* a worker that reports LBA_TERMINATED instead of LBA_IDLE at the end of a pass
W_OptimizeTerminates ==
    /\ pc[Worker] = "w_lba"
    /\ lba_thread_status' = LBA_TERMINATED
    /\ Goto(Worker, "w_notify")
    /\ UNCHANGED <<threads_started, kf_queue, curr_kf_mt, prev_kf_mt, curr_kf, prev_kf,
                   max_kf_idx, graph_size, n_keyframes, new_kf, lba_start, lba_join,
                   enqueued, mt_log>>
    /\ UNCHANGED mapVars

\* formLocalMap(curr_kf_mt); localBundleAdjustment...(); removeBadMapLandmarks...();
\* lk.lock(); lba_thread_status = LBA_IDLE; lk.unlock();
W_Optimize ==
    /\ pc[Worker] = "w_lba"
    /\ lba_thread_status' = LBA_IDLE
    /\ Goto(Worker, "w_notify")
    /\ UNCHANGED <<threads_started, kf_queue, curr_kf_mt, prev_kf_mt, curr_kf, prev_kf,
                   max_kf_idx, graph_size, n_keyframes, new_kf, lba_start, lba_join,
                   enqueued, mt_log>>
    /\ UNCHANGED mapVars

\* lba_join.notify_one();  then next iteration
W_NotifyJoin ==
    /\ pc[Worker] = "w_notify"
    /\ NotifyOne(lba_join, Worker, "w_lock", WakeLabel)
    /\ UNCHANGED <<threads_started, kf_queue, curr_kf_mt, prev_kf_mt, lba_thread_status,
                   curr_kf, prev_kf, max_kf_idx, graph_size, n_keyframes, enqueued, mt_log>>
    /\ UNCHANGED mapVars

\* after the loop: lk.lock(); lba_thread_status = LBA_TERMINATED; lk.unlock();
W_Terminate ==
    /\ pc[Worker] = "w_term"
    /\ lba_thread_status' = LBA_TERMINATED
    /\ Goto(Worker, "w_tnotify")
    /\ UNCHANGED <<threads_started, kf_queue, curr_kf_mt, prev_kf_mt, curr_kf, prev_kf,
                   max_kf_idx, graph_size, n_keyframes, new_kf, lba_start, lba_join,
                   enqueued, mt_log>>
    /\ UNCHANGED mapVars

\* lba_join.notify_one();  thread ends
W_NotifyTerminated ==
    /\ pc[Worker] = "w_tnotify"
    /\ NotifyOne(lba_join, Worker, "done", WakeLabel)
    /\ UNCHANGED <<threads_started, kf_queue, curr_kf_mt, prev_kf_mt, lba_thread_status,
                   curr_kf, prev_kf, max_kf_idx, graph_size, n_keyframes, enqueued, mt_log>>
    /\ UNCHANGED mapVars

NextMT ==
    \/ M_Initialize \/ M_StartSetIdle \/ M_StartSpawnWorker
    \/ M_AddKeyFrame \/ M_Enqueue \/ M_EnqueueNotify
    \/ M_KillThreads \/ M_KillPush \/ M_KillNotify \/ M_KillJoin
    \/ H_Entry \/ H_Dequeue \/ H_SetActive \/ H_NotifyStart \/ H_CheckSentinel \/ H_Join
    \/ W_Entry \/ W_WaitStart \/ W_CheckSentinel \/ W_Match \/ W_Optimize
    \/ W_NotifyJoin \/ W_Terminate \/ W_NotifyTerminated

SpecMT == InitMT /\ [][NextMT]_vars


\* ------------------------------------------------------------------ claims on the pipeline

\* C1: every call of killThreads eventually returns. Stated so that a finite run
\* decides it: killThreads is never blocked in lba_join.wait in a state in which no
\* thread of the pipeline can take another step.
C1_KillThreadsNeverStuck ==
    ~(pc[Caller] = "kill_wait" /\ ~ENABLED NextMT)


\* The local-mapping worker is inside a pass over a dequeued pair.
WorkerInPass == lba_thread_status = LBA_ACTIVE /\ pc[Worker] \in {"w_match", "w_lba"}

\* C2: while lba_thread_status is LBA_ACTIVE the dispatcher neither dequeues an
\* entry nor overwrites curr_kf_mt / prev_kf_mt.
C2_SingleInFlight ==
    [][(\/ Len(kf_queue') < Len(kf_queue)
        \/ curr_kf_mt' # curr_kf_mt
        \/ prev_kf_mt' # prev_kf_mt) => lba_thread_status # LBA_ACTIVE]_vars

\* a pair is in flight while a further pair is already queued
C2_Witness ==
    /\ WorkerInPass
    /\ kf_queue # <<>>
    /\ Head(kf_queue)[1] # NULL

\* C3: every worker pass matches exactly the pair dequeued for it, and the passes
\* follow the enqueue order.
C3_PassUsesDequeuedPair ==
    \A i \in 1..Len(mt_log) :
        /\ mt_log[i].deq = enqueued[i]
        /\ mt_log[i].used = mt_log[i].deq

\* C4: the caller's addKeyFrame leaves the Map Store (matrix dimension, keyframe
\* list, keyframe counter) unchanged while the local-mapping worker is in a pass.
C4_CallerOnlyEnqueues ==
    [][(pc[Caller] = "idle" /\ pc'[Caller] = "akf_enqueue" /\ WorkerInPass)
          => UNCHANGED <<graph_size, n_keyframes, max_kf_idx>>]_vars


\* ================================================================== Map Store
\* ------------------------------------------------------------------ bounds
\* addKeyFrame calls explored in the Map Store model
MaxKF == 2
\* stereo point / line features of every keyframe
NPt == 2
NLs == 1
\* observations (G2O optimizer) or landmarks (custom optimizer) judged out of
\* tolerance by the local optimization passes of one run
MaxOutliers == 2
\* loop edges accepted in one run
MaxLC == 1
\* direct calls of loopClosureFuseLandmarks in one run (SpecFuse)
MaxFuse == 1

\* ------------------------------------------------------------------ configuration
\* SlamConfig values, chosen small enough for the bounds above
minLMCovGraph == 2
minKFLocalMap == 1
minLMObs == 2
lcKFDist == 0
lcKFMaxDist == 0
lcNKFClosest == 0
\* removeBadMapLandmarks: max_kf_idx - kf_obs_list[0] > 10
CullAge == 10
\* similarity scores in tenths: ScoreOne is 1.0, 0 stands for a score <= 0.001
ScoreOne == 2
Scores == 0..ScoreOne

LC_IDLE == "LC_IDLE"
LC_ACTIVE == "LC_ACTIVE"
LC_READY == "LC_READY"

Pt == "pt"
Ls == "ls"
Kinds == {Pt, Ls}

\* the members of the Map Store that hold the data of one landmark kind
FeatF(k) == IF k = Pt THEN "stereo_pt" ELSE "stereo_ls"
MapF(k) == IF k = Pt THEN "map_points" ELSE "map_lines"
AnchorF(k) == IF k = Pt THEN "map_points_kf_idx" ELSE "map_lines_kf_idx"
MaxF(k) == IF k = Pt THEN "max_pt_idx" ELSE "max_ls_idx"
LcF(k) == IF k = Pt THEN "lc_pt_idxs" ELSE "lc_ls_idxs"
NFeat(k) == IF k = Pt THEN NPt ELSE NLs

\* a deleted slot of map_points / map_lines
nullptr ==
    [resident |-> FALSE, kf_obs_list |-> <<>>, local |-> FALSE, inlier |-> FALSE,
     obs_size |-> 0, NDw_size |-> 0, sigma_size |-> 0]

\* new MapPoint(idx, P3d, desc, kf_idx, pl, dir) / new MapLine(...): one observation.
\* kf_obs_list is kept entry by entry; desc_list is pushed and erased with it at
\* every place of the source and is represented by it. Of the other
\* per-observation lists the sizes are kept: obs_size is the size of obs_list
\* (dir_list and pts_list are pushed and erased with obs_list at every place),
\* NDw_size the size of NDw_obs_list, sigma_size the size of sigma_list.
NewLandmark(kf) ==
    [resident |-> TRUE, kf_obs_list |-> <<kf>>, local |-> FALSE, inlier |-> TRUE,
     obs_size |-> 1, NDw_size |-> 1, sigma_size |-> 1]

\* addMapPointObservation / addMapLineObservation: push_back on every list
AddObservation(lm, kf) ==
    [lm EXCEPT !.kf_obs_list = Append(@, kf),
               !.obs_size = @ + 1, !.NDw_size = @ + 1, !.sigma_size = @ + 1]

Last(q) == q[Len(q)]

\* the sequence f[1], ..., f[n], built element by element
RECURSIVE Tuple(_, _)
Tuple(f, n) == IF n = 0 THEN <<>> ELSE Append(Tuple(f, n - 1), f[n])

\* v.erase(v.begin() + i), i counted from 0
EraseAt(q, i) == SubSeq(q, 1, i) \o SubSeq(q, i + 2, Len(q))

\* position (from 1) of the first element of q equal to x, 0 if there is none
RECURSIVE FirstPos(_, _, _)
FirstPos(q, x, j) ==
    IF j > Len(q) THEN 0
    ELSE IF q[j] = x THEN j
    ELSE FirstPos(q, x, j + 1)

\* for (it = v.begin(); ...) if (*it == x) { v.erase(it); break; }
EraseFirst(q, x) ==
    LET j == FirstPos(q, x, 1) IN IF j = 0 THEN q ELSE EraseAt(q, j - 1)

\* full_graph[i][j]++
Inc(g, i, j) == [g EXCEPT ![i + 1][j + 1] = @ + 1]
\* full_graph[i][j]--
Dec(g, i, j) == [g EXCEPT ![i + 1][j + 1] = @ - 1]

\* a paired update that writes one direction only
IncOneSided(g, i, j) == Inc(g, i, j)

\* full_graph[i][j]++; full_graph[j][i]++;
IncPair(g, i, j) == Inc(Inc(g, i, j), j, i)
\* full_graph[i][j]--; full_graph[j][i]--;
DecPair(g, i, j) == Dec(Dec(g, i, j), j, i)

\* for (int obs : kf_obs_list) if (obs != skip) { full_graph[kf][obs]++; full_graph[obs][kf]++; }
RECURSIVE IncObservers(_, _, _, _)
IncObservers(g, obs, kf, skip) ==
    IF obs = <<>> THEN g
    ELSE IncObservers(IF Head(obs) # skip THEN IncPair(g, kf, Head(obs)) ELSE g,
                      Tail(obs), kf, skip)

\* for (idx : kf_obs_list) if (kf_obs != idx) { full_graph[kf_obs][idx]--; full_graph[idx][kf_obs]--; }
RECURSIVE DecObservers(_, _, _)
DecObservers(g, obs, kf) ==
    IF obs = <<>> THEN g
    ELSE DecObservers(IF Head(obs) # kf THEN DecPair(g, kf, Head(obs)) ELSE g, Tail(obs), kf)

\* the first feature of keyframe kf whose idx is lm gets idx = -1
ResetFeature(feat, kf, lm) ==
    LET j == FirstPos(feat[kf + 1], lm, 1) IN
    IF j = 0 THEN feat ELSE [feat EXCEPT ![kf + 1][j] = -1]

\* ------------------------------------------------------------------ construction
\* State after the constructor: lc_state = LC_IDLE, every container empty.
EmptyStore ==
    [stereo_pt |-> <<>>, stereo_ls |-> <<>>,
     map_keyframes |-> 0,
     map_points |-> <<>>, map_lines |-> <<>>,
     map_points_kf_idx |-> <<>>, map_lines_kf_idx |-> <<>>,
     max_pt_idx |-> 0, max_ls_idx |-> 0, max_kf_idx |-> 0,
     full_graph |-> <<>>,
     lc_state |-> LC_IDLE, lc_idx_list |-> <<>>, lc_pose_list |-> <<>>,
     lc_pt_idxs |-> <<>>, lc_ls_idxs |-> <<>>,
     \* history: loop edges whose correspondences loopClosureFuseLandmarks processed,
     \* the merges it performed, the lc_state at each start of a pose-graph
     \* optimization, direct calls of the fusion, a call that cannot return, the
     \* observations / landmarks judged out of tolerance so far, the candidate
     \* lookForLoopCandidates returned to the last loopClosure (NULL for none), the
     \* keyframes loopClosure was run for
     h_fused |-> {}, h_merges |-> {}, h_pgo |-> <<>>, h_fuse_calls |-> 0, h_ub |-> FALSE, h_outliers |-> 0,
     h_cand |-> NULL, h_lc_kfs |-> {},
     \* every landmark deleted by the culling so far was one it is meant to delete
     h_cull_ok |-> TRUE,
     \* the kinds of candidate ("new" landmark, "old" landmark) the Pluecker gate
     \* rejected in the last matchKF2KFLines, and whether every rejection so far left
     \* the store as it was before the candidate was looked at
     h_gate |-> {}, h_gate_ok |-> TRUE]

\* a keyframe as delivered by the front end, after "reset indices"
FreshFeatures(k) == Tuple([i \in 1..NFeat(k) |-> -1], NFeat(k))

\* initialize(kf0)
initialize(s) ==
    [s EXCEPT !.stereo_pt = <<FreshFeatures(Pt)>>,
              !.stereo_ls = <<FreshFeatures(Ls)>>,
              !.map_keyframes = 1,
              !.map_points = <<>>, !.map_lines = <<>>,
              !.map_points_kf_idx = << <<>> >>, !.map_lines_kf_idx = << <<>> >>,
              !.max_pt_idx = 0, !.max_ls_idx = 0, !.max_kf_idx = 0,
              !.full_graph = << <<0>> >>,
              !.lc_idx_list = <<>>,
              !.lc_pose_list = <<>>]

\* an expansion that allocates the larger matrix afresh
expandGraphsClearing(g) ==
    LET n == Len(g) + 1 IN
    Tuple([i \in 1..n |-> Tuple([j \in 1..n |-> 0], n)], n)

\* expandGraphs(): one more row and column, old values kept, new entries 0
expandGraphs(g) ==
    LET n == Len(g) + 1 IN
    Tuple([i \in 1..n |-> Tuple([j \in 1..n |-> IF i < n /\ j < n THEN g[i][j] ELSE 0], n)], n)

\* addKeyFrame up to the association: expandGraphs, max_kf_idx++, kf_idx, reset indices
\* (pipeline mode also pushes the keyframe and its anchor entries here)
NewKeyFrame(s, mt) ==
    [s EXCEPT !.full_graph = expandGraphs(@),
              !.max_kf_idx = @ + 1,
              !.h_gate = {},
              !.stereo_pt = Append(@, FreshFeatures(Pt)),
              !.stereo_ls = Append(@, FreshFeatures(Ls)),
              !.map_keyframes = IF mt THEN @ + 1 ELSE @,
              !.map_points_kf_idx = IF mt THEN Append(@, <<>>) ELSE @,
              !.map_lines_kf_idx = IF mt THEN Append(@, <<>>) ELSE @]

\* map_keyframes.push_back(curr_kf); map_*_kf_idx.insert(make_pair(kf_idx, aux_vec))
PushKeyFrame(s) ==
    [s EXCEPT !.map_keyframes = @ + 1,
              !.map_points_kf_idx = Append(@, <<>>),
              !.map_lines_kf_idx = Append(@, <<>>)]

\* ------------------------------------------------------------------ association
\* The match vectors a descriptor matcher can return for n1 query and n2 train
\* entries: m[i1] = i2 (0 for "no match"), no train entry matched twice.
Matchings(n1, n2) ==
    {m \in [1..n1 -> 0..n2] : \A a, b \in 1..n1 : (a # b /\ m[a] # 0) => m[a] # m[b]}

\* The features of a keyframe that has just been reset are interchangeable, so the
\* matched ones are taken in increasing order.
FreshMatchings(n1, n2) ==
    {m \in Matchings(n1, n2) :
        \A a \in 1..n1 : m[a] # 0 => m[a] = 1 + Cardinality({b \in 1..(a - 1) : m[b] # 0})}

\* the loop body with the new landmark left without the observation of the current
\* keyframe
MatchKF2KFStepWrong(s, k, kf1, kf2, i1, i2) ==
    LET lm_idx == s[FeatF(k)][kf1 + 1][i1] IN
    IF lm_idx = -1
    THEN LET n == s[MaxF(k)] IN
         [s EXCEPT ![FeatF(k)] = [@ EXCEPT ![kf1 + 1][i1] = n, ![kf2 + 1][i2] = n],
                   ![MapF(k)] = Append(@, NewLandmark(kf1)),
                   ![AnchorF(k)] = [@ EXCEPT ![kf1 + 1] = Append(@, n)],
                   ![MaxF(k)] = n + 1,
                   !.full_graph = IncPair(@, kf2, kf1)]
    ELSE IF s[MapF(k)][lm_idx + 1] = nullptr THEN s
    ELSE LET lm == AddObservation(s[MapF(k)][lm_idx + 1], kf2) IN
         [s EXCEPT ![FeatF(k)] = [@ EXCEPT ![kf2 + 1][i2] = lm_idx],
                   ![MapF(k)] = [@ EXCEPT ![lm_idx + 1] = lm],
                   !.full_graph = IncObservers(@, lm.kf_obs_list, kf2, kf2)]

\* matchKF2KFPoints / matchKF2KFLines, body of the loop for one accepted match i1 -> i2
MatchKF2KFStep(s, k, kf1, kf2, i1, i2) ==
    LET lm_idx == s[FeatF(k)][kf1 + 1][i1] IN
    IF lm_idx = -1
    THEN \* new 3D landmark
         LET n == s[MaxF(k)] IN
         [s EXCEPT ![FeatF(k)] = [@ EXCEPT ![kf1 + 1][i1] = n, ![kf2 + 1][i2] = n],
                   ![MapF(k)] = Append(@, AddObservation(NewLandmark(kf1), kf2)),
                   ![AnchorF(k)] = [@ EXCEPT ![kf1 + 1] = Append(@, n)],
                   ![MaxF(k)] = n + 1,
                   !.full_graph = IncPair(@, kf2, kf1)]
    ELSE IF s[MapF(k)][lm_idx + 1] = nullptr THEN s
    ELSE \* 3D landmark exists: copy idx and add the observation
         LET lm == AddObservation(s[MapF(k)][lm_idx + 1], kf2) IN
         [s EXCEPT ![FeatF(k)] = [@ EXCEPT ![kf2 + 1][i2] = lm_idx],
                   ![MapF(k)] = [@ EXCEPT ![lm_idx + 1] = lm],
                   !.full_graph = IncObservers(@, lm.kf_obs_list, kf2, kf2)]

\* what a rejection must leave as it was: the landmarks, the anchor entries, the
\* covisibility counts and the landmark counter
Associations(s, k) == <<s[MapF(k)], s[AnchorF(k)], s.full_graph, s[MaxF(k)]>>

\* the rejection with the index of the feature of the previous keyframe left in place
GateRejectKeepingPrev(s, k, kf1, kf2, i1, i2) ==
    LET lm_idx == s[FeatF(k)][kf1 + 1][i1] IN
    IF lm_idx = -1
    THEN LET n == s[MaxF(k)]
             r == [s EXCEPT ![FeatF(k)] = [@ EXCEPT ![kf1 + 1][i1] = n, ![kf2 + 1][i2] = -1]]
         IN [r EXCEPT !.h_gate = @ \cup {"new"},
                      !.h_gate_ok = /\ @
                                    /\ Associations(r, k) = Associations(s, k)
                                    /\ r[FeatF(k)][kf1 + 1][i1] = -1
                                    /\ r[FeatF(k)][kf2 + 1][i2] = -1]
    ELSE IF s[MapF(k)][lm_idx + 1] = nullptr THEN s
    ELSE [s EXCEPT !.h_gate = @ \cup {"old"}]

\* matchKF2KFLines under USE_LINE_PLUKER, a match with error2.norm() > sqrt(5.991):
\* the indices assigned at the start of the branch (max_ls_idx to both features for a
\* new landmark, lm_idx to the feature of the current keyframe for an existing one)
\* are set back to -1 and the match is skipped before the landmark, the anchor entry,
\* the counter and the graph are touched
GateReject(s, k, kf1, kf2, i1, i2) ==
    LET lm_idx == s[FeatF(k)][kf1 + 1][i1] IN
    IF lm_idx = -1
    THEN LET n == s[MaxF(k)]
             t == [s EXCEPT ![FeatF(k)] = [@ EXCEPT ![kf1 + 1][i1] = n, ![kf2 + 1][i2] = n]]
             r == [t EXCEPT ![FeatF(k)] = [@ EXCEPT ![kf2 + 1][i2] = -1, ![kf1 + 1][i1] = -1]]
         IN [r EXCEPT !.h_gate = @ \cup {"new"},
                      !.h_gate_ok = /\ @
                                    /\ Associations(r, k) = Associations(s, k)
                                    /\ r[FeatF(k)][kf1 + 1][i1] = -1
                                    /\ r[FeatF(k)][kf2 + 1][i2] = -1]
    ELSE IF s[MapF(k)][lm_idx + 1] = nullptr THEN s
    ELSE LET t == [s EXCEPT ![FeatF(k)] = [@ EXCEPT ![kf2 + 1][i2] = lm_idx]]
             r == [t EXCEPT ![FeatF(k)] = [@ EXCEPT ![kf2 + 1][i2] = -1]]
         IN [r EXCEPT !.h_gate = @ \cup {"old"},
                      !.h_gate_ok = /\ @
                                    /\ Associations(r, k) = Associations(s, k)
                                    /\ r[FeatF(k)][kf1 + 1][i1] = lm_idx
                                    /\ r[FeatF(k)][kf2 + 1][i2] = -1]

\* for (i1 = 0; i1 < matches_12.size(); ++i1) { i2 = matches_12[i1]; if (i2 < 0) continue; ... }
\* bad: the matches the Pluecker gate rejects
RECURSIVE MatchKF2KF(_, _, _, _, _, _, _)
MatchKF2KF(s, k, kf1, kf2, m, bad, i1) ==
    IF i1 > Len(m) THEN s
    ELSE MatchKF2KF(IF m[i1] = 0 THEN s
                    ELSE IF i1 \in bad THEN GateReject(s, k, kf1, kf2, i1, m[i1])
                    ELSE MatchKF2KFStep(s, k, kf1, kf2, i1, m[i1]),
                    k, kf1, kf2, m, bad, i1 + 1)

matchKF2KFPoints(s, kf1, kf2, m) == MatchKF2KF(s, Pt, kf1, kf2, m, {}, 1)

matchKF2KFLines(s, kf1, kf2, m, bad) == MatchKF2KF(s, Ls, kf1, kf2, m, bad, 1)

\* matchMap2KFPoints / matchMap2KFLines: the landmarks offered to the matcher are
\* resident, local and not last observed by the current keyframe
MapLocal(s, k, kf2) ==
    {lm \in 0..(Len(s[MapF(k)]) - 1) :
        LET p == s[MapF(k)][lm + 1] IN
        p # nullptr /\ p.local /\ Last(p.kf_obs_list) # kf2}

\* the features of the current keyframe with idx == -1
Unmatched(s, k, kf2) ==
    {i \in 1..Len(s[FeatF(k)][kf2 + 1]) : s[FeatF(k)][kf2 + 1][i] = -1}

Min(S) == CHOOSE x \in S : \A y \in S : x <= y

\* body of the loop for the accepted matches: the landmarks of `chosen` in map
\* order, each taking the next unmatched feature of the current keyframe
RECURSIVE MatchMap2KF(_, _, _, _)
MatchMap2KF(s, k, kf2, chosen) ==
    IF chosen = {} \/ Unmatched(s, k, kf2) = {} THEN s
    ELSE LET lm_idx == Min(chosen)
             i2 == Min(Unmatched(s, k, kf2))
             lm == AddObservation(s[MapF(k)][lm_idx + 1], kf2)
         IN MatchMap2KF([s EXCEPT ![FeatF(k)] = [@ EXCEPT ![kf2 + 1][i2] = lm_idx],
                                   ![MapF(k)] = [@ EXCEPT ![lm_idx + 1] = lm],
                                   !.full_graph = IncObservers(@, lm.kf_obs_list, kf2, kf2)],
                        k, kf2, chosen \ {lm_idx})

\* the sets of landmarks the map-to-keyframe matcher can accept
Map2KFChoices(s, k, kf2) ==
    {c \in SUBSET MapLocal(s, k, kf2) : Cardinality(c) <= Cardinality(Unmatched(s, k, kf2))}

\* ------------------------------------------------------------------ local map
Abs(x) == IF x < 0 THEN -x ELSE x

\* formLocalMap: the keyframes flagged local for keyframe kf
LocalKFs(s, kf) ==
    LET g_size == Len(s.full_graph) - 1 IN
    {kf} \cup {i \in 0..(g_size - 1) :
                  \/ s.full_graph[g_size + 1][i + 1] >= minLMCovGraph
                  \/ Abs(g_size - i) <= minKFLocalMap}

\* formLocalMap() / formLocalMap(kf): every landmark flag is cleared, then set for
\* the resident landmarks referenced by a feature of a local keyframe
formLocalMap(s, kf) ==
    LET Flag(k) ==
            Tuple([lm \in 1..Len(s[MapF(k)]) |->
                      IF s[MapF(k)][lm] = nullptr THEN nullptr
                      ELSE [s[MapF(k)][lm] EXCEPT !.local =
                              \E i \in LocalKFs(s, kf) :
                                  \E f \in 1..Len(s[FeatF(k)][i + 1]) :
                                      s[FeatF(k)][i + 1][f] = lm - 1]],
                  Len(s[MapF(k)]))
    IN [s EXCEPT !.map_points = Flag(Pt), !.map_lines = Flag(Ls)]

\* ------------------------------------------------------------------ local optimization
\* The resident landmarks flagged local.
LocalLMs(s, k) ==
    {lm \in 0..(Len(s[MapF(k)]) - 1) : s[MapF(k)][lm + 1] # nullptr /\ s[MapF(k)][lm + 1].local}

\* localBundleAdjustmentForPlukerWithG2O: one edge per observation of a local landmark,
\* recorded as (landmark index, position of the observation in its lists)
Edges(s, k) ==
    UNION {{<<lm, obs>> : obs \in 0..(Len(s[MapF(k)][lm + 1].kf_obs_list) - 1)} :
              lm \in LocalLMs(s, k)}

\* the subsets of S with at most n elements
UpTo(S, n) == {x \in SUBSET S : Cardinality(x) <= n}

\* the observations one G2O pass can judge out of tolerance (chi2 > 5.991)
OutlierChoices(s) ==
    {b \in [pt : UpTo(Edges(s, Pt), MaxOutliers), ls : UpTo(Edges(s, Ls), MaxOutliers)] :
        Cardinality(b.pt) + Cardinality(b.ls) <= MaxOutliers - s.h_outliers}

\* the landmarks one pass of the custom optimizer can move by more than 0.01
MovedChoices(s) ==
    {b \in [pt : UpTo(LocalLMs(s, Pt), MaxOutliers), ls : UpTo(LocalLMs(s, Ls), MaxOutliers)] :
        Cardinality(b.pt) + Cardinality(b.ls) <= MaxOutliers - s.h_outliers}

\* a removal loop that erases the observation of every bad edge, the last one of
\* its landmark included
PruneObservationAlways(s, k, anchor, lm_idx_map, lm_idx_obs) ==
    LET p == s[MapF(k)][lm_idx_map + 1]
        kf_obs == p.kf_obs_list[lm_idx_obs + 1]
        rest == EraseAt(p.kf_obs_list, lm_idx_obs)
    IN [s EXCEPT ![MapF(k)] = [s[MapF(k)] EXCEPT ![lm_idx_map + 1].kf_obs_list = rest],
                 ![FeatF(k)] = ResetFeature(s[FeatF(k)], kf_obs, lm_idx_map),
                 !.full_graph = DecObservers(s.full_graph, rest, kf_obs)]

\* localBundleAdjustmentForPlukerWithG2O, body of the removal loop for one bad edge of
\* landmark lm_idx_map, observation lm_idx_obs; anchor names the index the code
\* searches and extends when the first observation goes
\* The point loop tests obs_list.size() and erases from desc_list, obs_list,
\* dir_list and kf_obs_list; the line loop tests NDw_obs_list.size() and erases from
\* desc_list, NDw_obs_list and kf_obs_list. Neither erases from sigma_list. An erase
\* at a position past the end of NDw_obs_list is undefined.
PruneObservation(s, k, anchor, lm_idx_map, lm_idx_obs) ==
    LET p == s[MapF(k)][lm_idx_map + 1]
        kf_obs == p.kf_obs_list[lm_idx_obs + 1]
    IN  IF (IF k = Pt THEN p.obs_size ELSE p.NDw_size) > 1
        THEN LET new_kf_base == p.kf_obs_list[2]
                 rest == EraseAt(p.kf_obs_list, lm_idx_obs)
                 reanchor == /\ lm_idx_obs = 0
                             /\ FirstPos(s[anchor][kf_obs + 1], lm_idx_map, 1) # 0
                 erased == IF k = Pt
                           THEN [p EXCEPT !.kf_obs_list = rest, !.obs_size = @ - 1]
                           ELSE [p EXCEPT !.kf_obs_list = rest, !.NDw_size = @ - 1]
             IN [s EXCEPT ![anchor] = IF reanchor
                                      THEN [s[anchor] EXCEPT ![new_kf_base + 1] =
                                                Append(@, lm_idx_map)]
                                      ELSE s[anchor],
                          ![MapF(k)] = [s[MapF(k)] EXCEPT ![lm_idx_map + 1] = erased],
                          ![FeatF(k)] = ResetFeature(s[FeatF(k)], kf_obs, lm_idx_map),
                          !.full_graph = DecObservers(s.full_graph, rest, kf_obs),
                          !.h_ub = @ \/ (k = Ls /\ lm_idx_obs >= p.NDw_size)]
        ELSE [s EXCEPT ![MapF(k)] = [s[MapF(k)] EXCEPT ![lm_idx_map + 1].inlier = FALSE]]

\* for (i = edges.size() - 1; i >= 0; i--): the bad edges, last edge first
RECURSIVE PruneLoop(_, _, _, _)
PruneLoop(s, k, anchor, bad) ==
    IF bad = {} THEN s
    ELSE LET e == CHOOSE e \in bad :
                    \A f \in bad : f[1] < e[1] \/ (f[1] = e[1] /\ f[2] <= e[2])
         IN PruneLoop(PruneObservation(s, k, anchor, e[1], e[2]), k, anchor, bad \ {e})

\* localBundleAdjustmentForPlukerWithG2O: the point loop, then the line loop; both
\* loops name map_points_kf_idx
localBundleAdjustmentForPlukerWithG2O(s, bad) ==
    PruneLoop(PruneLoop(s, Pt, "map_points_kf_idx", bad[Pt]), Ls, "map_points_kf_idx", bad[Ls])

\* localBundleAdjustment -> levMarquardtOptimizationLBA, publication of the result:
\* a landmark that moved by more than 0.01 is flagged non-inlier. Element (5) of an
\* observation is set to 1 when the lists are built and never to -1, so the removal
\* loop that follows finds no candidate.
localBundleAdjustment(s, bad) ==
    LET Flag(k) ==
            Tuple([lm \in 1..Len(s[MapF(k)]) |->
                      IF (lm - 1) \in bad[k]
                      THEN [s[MapF(k)][lm] EXCEPT !.inlier = FALSE]
                      ELSE s[MapF(k)][lm]],
                  Len(s[MapF(k)]))
    IN [s EXCEPT !.map_points = Flag(Pt), !.map_lines = Flag(Ls)]

\* ------------------------------------------------------------------ culling
\* a loop body that does not look at the local flag
CullStepIgnoringLocal(s, k, lm, pluker) ==
    LET p == s[MapF(k)][lm + 1] IN
    IF /\ p # nullptr
       /\ s.max_kf_idx - p.kf_obs_list[1] > CullAge
       /\ (~p.inlier \/ (IF k = Ls /\ pluker THEN p.NDw_size ELSE p.obs_size) < minLMObs)
    THEN LET kf_obs == p.kf_obs_list[1] IN
         [s EXCEPT ![FeatF(k)] = ResetFeature(@, kf_obs, lm),
                   ![AnchorF(k)] = [@ EXCEPT ![kf_obs + 1] = EraseFirst(@, lm)],
                   ![MapF(k)] = [@ EXCEPT ![lm + 1] = nullptr],
                   !.h_cull_ok = @ /\ ~p.local
                                   /\ (~p.inlier \/ Len(p.kf_obs_list) < minLMObs)]
    ELSE s

\* removeBadMapLandmarks / removeBadMapLandmarksForPluker, loop body for slot lm: the
\* count compared with minLMObs is obs_list.size(), and NDw_obs_list.size() for the
\* lines of removeBadMapLandmarksForPluker. h_cull_ok records whether every landmark
\* deleted so far was non-local and either non-inlier or observed by fewer than
\* minLMObs keyframes.
CullStep(s, k, lm, pluker) ==
    LET p == s[MapF(k)][lm + 1] IN
    IF /\ p # nullptr
       /\ ~p.local
       /\ s.max_kf_idx - p.kf_obs_list[1] > CullAge
       /\ (~p.inlier \/ (IF k = Ls /\ pluker THEN p.NDw_size ELSE p.obs_size) < minLMObs)
    THEN LET kf_obs == p.kf_obs_list[1] IN
         [s EXCEPT ![FeatF(k)] = ResetFeature(@, kf_obs, lm),
                   ![AnchorF(k)] = [@ EXCEPT ![kf_obs + 1] = EraseFirst(@, lm)],
                   ![MapF(k)] = [@ EXCEPT ![lm + 1] = nullptr],
                   !.h_cull_ok = @ /\ ~p.local
                                   /\ (~p.inlier \/ Len(p.kf_obs_list) < minLMObs)]
    ELSE s

RECURSIVE CullLoop(_, _, _, _)
CullLoop(s, k, lm, pluker) ==
    IF lm >= Len(s[MapF(k)]) THEN s
    ELSE CullLoop(CullStep(s, k, lm, pluker), k, lm + 1, pluker)

removeBadMapLandmarks(s) == CullLoop(CullLoop(s, Pt, 0, FALSE), Ls, 0, FALSE)

removeBadMapLandmarksForPluker(s) == CullLoop(CullLoop(s, Pt, 0, TRUE), Ls, 0, TRUE)

\* ------------------------------------------------------------------ loop closure
\* lookForLoopCandidates(kf_curr_idx, kf_prev_idx); col[i] is conf_matrix[i][kf_curr_idx].
\* The result is the set of values kf_prev_idx can take (std::sort leaves the order
\* of equal scores open); the empty set is "no candidate".
lookForLoopCandidates(s, col, kf_curr_idx) ==
    LET max_confmat == 0..(kf_curr_idx - lcKFDist - 1)
        covis == {i \in 0..(kf_curr_idx - 1) :
                     \/ s.full_graph[i + 1][kf_curr_idx + 1] >= minLMCovGraph
                     \/ kf_curr_idx - i <= minKFLocalMap + 3}
        below == {col[i] : i \in {j \in covis : col[j] < ScoreOne /\ col[j] > 0}}
        lc_min_score == IF below = {} THEN ScoreOne ELSE Min(below)
        Closest(idx_max) ==
            Cardinality({i \in max_confmat \ {idx_max} :
                            /\ Abs(i - idx_max) <= lcKFMaxDist
                            /\ 10 * col[i] >= 8 * lc_min_score})
    IN  IF Cardinality(max_confmat) > lcKFMaxDist
        THEN {idx_max \in max_confmat :
                 /\ \A i \in max_confmat : col[i] <= col[idx_max]
                 /\ col[idx_max] >= lc_min_score
                 /\ Closest(idx_max) >= lcNKFClosest}
        ELSE {}

\* isLoopClosure: the Vector4i entries saved for fusing, for the matches m between
\* kf0 and kf1 that survive the pose solver:
\* (idx of feature i1 of kf0, i1, idx of feature i2 of kf1, i2)
Correspondences(s, k, kf0, kf1, m) ==
    LET matched == {i1 \in 1..Len(m) : m[i1] # 0}
        RECURSIVE Build(_)
        Build(i1) ==
            IF i1 > Len(m) THEN <<>>
            ELSE (IF i1 \in matched
                  THEN << <<s[FeatF(k)][kf0 + 1][i1], i1, s[FeatF(k)][kf1 + 1][m[i1]], m[i1]>> >>
                  ELSE <<>>) \o Build(i1 + 1)
    IN Build(1)

\* loopClosure() with the lc_state == LC_ACTIVE test of its two else branches left out
loopClosureNoActiveTest(s, kf_prev_idx, isLC, mpt, mls) ==
    LET kf_curr_idx == s.max_kf_idx IN
    IF kf_prev_idx # NULL /\ isLC
    THEN [s EXCEPT !.lc_pt_idxs = Append(@, Correspondences(s, Pt, kf_prev_idx, kf_curr_idx, mpt)),
                   !.lc_ls_idxs = Append(@, Correspondences(s, Ls, kf_prev_idx, kf_curr_idx, mls)),
                   !.lc_pose_list = Append(@, <<kf_prev_idx, kf_curr_idx>>),
                   !.lc_idx_list = Append(@, <<kf_prev_idx, kf_curr_idx, 1>>),
                   !.lc_state = IF @ = LC_IDLE THEN LC_ACTIVE ELSE @,
                   !.h_cand = kf_prev_idx, !.h_lc_kfs = @ \cup {kf_curr_idx}]
    ELSE [s EXCEPT !.lc_state = LC_READY,
                   !.h_cand = kf_prev_idx, !.h_lc_kfs = @ \cup {kf_curr_idx}]

\* loopClosure() up to "LC computation": kf_prev_idx is the candidate (NULL if
\* lookForLoopCandidates found none), isLC the verdict of isLoopClosure. The entry
\* of lc_pose_list is pose_inc, the relative pose of the edge, kept here as the
\* pair of keyframes it relates.
loopClosure(s, kf_prev_idx, isLC, mpt, mls) ==
    LET kf_curr_idx == s.max_kf_idx IN
    IF kf_prev_idx # NULL /\ isLC
    THEN [s EXCEPT !.lc_pt_idxs = Append(@, Correspondences(s, Pt, kf_prev_idx, kf_curr_idx, mpt)),
                   !.lc_ls_idxs = Append(@, Correspondences(s, Ls, kf_prev_idx, kf_curr_idx, mls)),
                   !.lc_pose_list = Append(@, <<kf_prev_idx, kf_curr_idx>>),
                   !.lc_idx_list = Append(@, <<kf_prev_idx, kf_curr_idx, 1>>),
                   !.lc_state = IF @ = LC_IDLE THEN LC_ACTIVE ELSE @,
                   !.h_cand = kf_prev_idx, !.h_lc_kfs = @ \cup {kf_curr_idx}]
    ELSE [s EXCEPT !.lc_state = IF @ = LC_ACTIVE THEN LC_READY ELSE @,
                   !.h_cand = kf_prev_idx, !.h_lc_kfs = @ \cup {kf_curr_idx}]

\* ------------------------------------------------------------------ fusion
\* for (it : B.desc_list) { A.*_list.push_back(B.*_list[iter]); jdx = B.kf_obs_list[iter];
\*   for (i < Nobs_lm_prev) { idx = A.kf_obs_list[i]; full_graph[idx][jdx]++; full_graph[jdx][idx]++; } }
RECURSIVE MergeGraph(_, _, _)
MergeGraph(g, obsA, obsB) ==
    IF obsB = <<>> THEN g
    ELSE MergeGraph(IncObservers(g, obsA, Head(obsB), NULL), obsA, Tail(obsB))

\* the merge with the lists of B put in front of those of A, B left in its slot
MergeLandmarksWrong(s, k, kf_curr_idx, lm_idx0, lm_idx1, lm_ldx1) ==
    LET A == s[MapF(k)][lm_idx0 + 1]
        B == s[MapF(k)][lm_idx1 + 1]
    IN [s EXCEPT ![MapF(k)] = [@ EXCEPT ![lm_idx0 + 1].kf_obs_list = B.kf_obs_list \o A.kf_obs_list],
                 !.full_graph = MergeGraph(@, A.kf_obs_list, B.kf_obs_list)]

\* loopClosureFuseLandmarks, both sides own a landmark: B = lm_idx1 is appended to
\* A = lm_idx0, the feature lm_ldx1 of kf_curr is retargeted, B leaves the anchor
\* index of its first observation and its slot is set to nullptr. One push_back per
\* entry of B's desc_list goes to desc_list, obs_list, dir_list, (pts_list) and
\* kf_obs_list of A, none to sigma_list or NDw_obs_list.
MergeLandmarks(s, k, kf_curr_idx, lm_idx0, lm_idx1, lm_ldx1) ==
    LET A == s[MapF(k)][lm_idx0 + 1]
        B == s[MapF(k)][lm_idx1 + 1]
        kf_lm_obs == B.kf_obs_list[1]
    IN [s EXCEPT ![MapF(k)] = [@ EXCEPT ![lm_idx0 + 1].kf_obs_list = A.kf_obs_list \o B.kf_obs_list,
                                        ![lm_idx0 + 1].obs_size = @ + Len(B.kf_obs_list),
                                        ![lm_idx1 + 1] = nullptr],
                 ![FeatF(k)] = [@ EXCEPT ![kf_curr_idx + 1][lm_ldx1] = lm_idx0],
                 ![AnchorF(k)] = [@ EXCEPT ![kf_lm_obs + 1] = EraseFirst(@, lm_idx1)],
                 !.full_graph = MergeGraph(@, A.kf_obs_list, B.kf_obs_list)]

\* loopClosureFuseLandmarks, body of the loop for one recorded correspondence c of
\* the loop edge (kf_prev_idx, kf_curr_idx)
FuseStep(s, k, kf_prev_idx, kf_curr_idx, c) ==
    LET lm_idx0 == c[1]
        lm_ldx0 == c[2]
        lm_idx1 == c[3]
        lm_ldx1 == c[4]
        map == s[MapF(k)]
    IN  IF lm_idx0 = -1 /\ lm_idx1 # -1
        THEN IF map[lm_idx1 + 1] = nullptr THEN s
             ELSE LET lm == AddObservation(map[lm_idx1 + 1], kf_prev_idx) IN
                  [s EXCEPT ![FeatF(k)] = [@ EXCEPT ![kf_prev_idx + 1][lm_ldx0] = lm_idx1],
                            ![MapF(k)] = [@ EXCEPT ![lm_idx1 + 1] = lm],
                            !.full_graph = IncObservers(@, lm.kf_obs_list, kf_curr_idx, NULL)]
        ELSE IF lm_idx0 # -1 /\ lm_idx1 = -1
        THEN IF map[lm_idx0 + 1] = nullptr THEN s
             ELSE LET lm == AddObservation(map[lm_idx0 + 1], kf_curr_idx) IN
                  [s EXCEPT ![FeatF(k)] = [@ EXCEPT ![kf_curr_idx + 1][lm_ldx1] = lm_idx0],
                            ![MapF(k)] = [@ EXCEPT ![lm_idx0 + 1] = lm],
                            !.full_graph = IncObservers(@, lm.kf_obs_list, kf_prev_idx, NULL)]
        ELSE IF lm_idx0 = -1 /\ lm_idx1 = -1
        THEN LET n == s[MaxF(k)] IN
             [s EXCEPT ![FeatF(k)] = [@ EXCEPT ![kf_prev_idx + 1][lm_ldx0] = n,
                                               ![kf_curr_idx + 1][lm_ldx1] = n],
                       ![MapF(k)] = Append(@, AddObservation(NewLandmark(kf_prev_idx), kf_curr_idx)),
                       ![AnchorF(k)] = [@ EXCEPT ![kf_prev_idx + 1] = Append(@, n)],
                       ![MaxF(k)] = n + 1,
                       !.full_graph = IncPair(@, kf_prev_idx, kf_curr_idx)]
        ELSE IF map[lm_idx0 + 1] = nullptr \/ map[lm_idx1 + 1] = nullptr THEN s
        ELSE IF lm_idx0 = lm_idx1
        THEN \* the loop appends to the list it iterates over: it meets no end, the
             \* call does not return
             [s EXCEPT !.h_ub = TRUE]
        ELSE LET r == MergeLandmarks(s, k, kf_curr_idx, lm_idx0, lm_idx1, lm_ldx1) IN
             [r EXCEPT !.h_merges = @ \cup
                 {[kind |-> k, a |-> lm_idx0, b |-> lm_idx1,
                   preA |-> map[lm_idx0 + 1].kf_obs_list,
                   preB |-> map[lm_idx1 + 1].kf_obs_list,
                   postA |-> r[MapF(k)][lm_idx0 + 1].kf_obs_list,
                   slotB |-> r[MapF(k)][lm_idx1 + 1],
                   g0 |-> s.full_graph, g1 |-> r.full_graph]}]

\* for (lm_it : lc_*_idxs[lc_idx]) ...
RECURSIVE FuseEdge(_, _, _, _, _)
FuseEdge(s, k, kf_prev_idx, kf_curr_idx, cs) ==
    IF cs = <<>> \/ s.h_ub THEN s
    ELSE FuseEdge(FuseStep(s, k, kf_prev_idx, kf_curr_idx, Head(cs)),
                  k, kf_prev_idx, kf_curr_idx, Tail(cs))

\* for (idx_it : lc_*_idxs) if (lc_idx_list[lc_idx](2) == 1) ...
RECURSIVE FuseKind(_, _, _)
FuseKind(s, k, lc_idx) ==
    IF lc_idx > Len(s[LcF(k)]) \/ s.h_ub THEN s
    ELSE IF lc_idx > Len(s.lc_idx_list)
    THEN \* lc_idx_list[lc_idx] is read past the end of the vector
         [s EXCEPT !.h_ub = TRUE]
    ELSE FuseKind(IF s.lc_idx_list[lc_idx][3] = 1
                  THEN [FuseEdge(s, k, s.lc_idx_list[lc_idx][1], s.lc_idx_list[lc_idx][2],
                                 s[LcF(k)][lc_idx])
                           EXCEPT !.h_fused = @ \cup {lc_idx}]
                  ELSE s,
                  k, lc_idx + 1)

\* loopClosureFuseLandmarks(): the point matches, then the line segment matches
loopClosureFuseLandmarks(s) == FuseKind(FuseKind(s, Pt, 1), Ls, 1)

\* loopClosureOptimizationCovGraphG2O() followed by lc_state = LC_IDLE: the poses are
\* re-estimated (not modelled), every edge of lc_idx_list is marked optimized, then
\* loopClosureFuseLandmarks() runs
loopClosureOptimizationCovGraphG2O(s) ==
    LET marked == [s EXCEPT !.lc_idx_list = Tuple([e \in 1..Len(@) |-> <<@[e][1], @[e][2], 0>>], Len(@)),
                            !.h_pgo = Append(@, s.lc_state)]
    IN [loopClosureFuseLandmarks(marked) EXCEPT !.lc_state = LC_IDLE]

\* ------------------------------------------------------------------ Map Store: construction
\* State after the constructor. The pipeline threads are not part of this model:
\* in pipeline mode a keyframe is handed over and its pass runs before the next
\* addKeyFrame call.
InitMap ==
    /\ threads_started = FALSE
    /\ kf_queue = <<>>
    /\ curr_kf_mt = NULL
    /\ prev_kf_mt = NULL
    /\ lba_thread_status = LBA_IDLE
    /\ curr_kf = NULL
    /\ prev_kf = NULL
    /\ max_kf_idx = 0
    /\ graph_size = 0
    /\ n_keyframes = 0
    /\ pc = [t \in Threads |-> "unborn"]
    /\ new_kf = {}
    /\ lba_start = {}
    /\ lba_join = {}
    /\ enqueued = <<>>
    /\ mt_log = <<>>
    /\ ms = EmptyStore
    /\ mpc = "start"
    /\ build \in [multithread : BOOLEAN, pluker : BOOLEAN]

\* ------------------------------------------------------------------ Map Store: operations
\* initialize(kf0)
Op_Initialize ==
    /\ mpc = "start"
    /\ ms' = initialize(ms)
    /\ mpc' = "idle"
    /\ UNCHANGED <<build, mtVars>>

\* addKeyFrame(curr_kf) up to lookForCommonMatches
Op_AddKeyFrame ==
    /\ mpc = "idle"
    /\ ms.max_kf_idx < MaxKF
    /\ ms' = NewKeyFrame(ms, build.multithread)
    /\ mpc' = "match"
    /\ UNCHANGED <<build, mtVars>>

\* lookForCommonMatches(prev_kf, curr_kf): matchKF2KFPoints, matchKF2KFLines,
\* matchMap2KFPoints, matchMap2KFLines; the match vectors are the inputs
Op_LookForCommonMatches ==
    /\ mpc = "match"
    /\ \E mpt \in FreshMatchings(NPt, NPt) : \E mls \in FreshMatchings(NLs, NLs) :
       \E bad \in (IF build.pluker THEN SUBSET {i1 \in 1..NLs : mls[i1] # 0} ELSE {{}}) :
          LET kf2 == ms.max_kf_idx
              s1 == matchKF2KFPoints(ms, kf2 - 1, kf2, mpt)
              s2 == matchKF2KFLines(s1, kf2 - 1, kf2, mls, bad)
          IN \E cpt \in Map2KFChoices(s2, Pt, kf2) :
                LET s3 == MatchMap2KF(s2, Pt, kf2, cpt) IN
                \E cls \in Map2KFChoices(s3, Ls, kf2) :
                    ms' = MatchMap2KF(s3, Ls, kf2, cls)
    /\ mpc' = "local_map"
    /\ UNCHANGED <<build, mtVars>>

\* sequential mode: the keyframe and its anchor entries are pushed, formLocalMap(),
\* localBundleAdjustment(), removeBadMapLandmarks(), then addKeyFrame goes on to
\* loopClosure(); pipeline mode: formLocalMap(curr_kf_mt), then
\* localBundleAdjustmentForPlukerWithG2O() and removeBadMapLandmarksForPluker() if
\* built with USE_LINE_PLUKER, else localBundleAdjustment() and
\* removeBadMapLandmarks(), which ends the pass
Op_LocalMapping ==
    /\ mpc = "local_map"
    /\ LET s1 == formLocalMap(IF build.multithread THEN ms ELSE PushKeyFrame(ms), ms.max_kf_idx)
       IN IF build.multithread /\ build.pluker
          THEN \E bad \in OutlierChoices(s1) :
                  ms' = [removeBadMapLandmarksForPluker(localBundleAdjustmentForPlukerWithG2O(s1, bad))
                            EXCEPT !.h_outliers = @ + Cardinality(bad.pt) + Cardinality(bad.ls)]
          ELSE \E bad \in MovedChoices(s1) :
                  ms' = [removeBadMapLandmarks(localBundleAdjustment(s1, bad))
                            EXCEPT !.h_outliers = @ + Cardinality(bad.pt) + Cardinality(bad.ls)]
    /\ mpc' = IF ms'.h_ub THEN "ub" ELSE IF build.multithread THEN "idle" ELSE "lc"
    /\ UNCHANGED <<build, mtVars>>

\* loopClosure() up to "LC computation": col is the column of conf_matrix for the
\* current keyframe, mpt / mls the matches that survive the relative-pose solver
Op_LoopClosure ==
    /\ mpc = "lc"
    /\ \E cands \in {lookForLoopCandidates(ms, col, ms.max_kf_idx) :
                          col \in [0..(ms.max_kf_idx - 1) -> Scores]} :
          IF cands = {}
          THEN ms' = loopClosure(ms, NULL, FALSE, <<>>, <<>>)
          ELSE \E kf_prev_idx \in cands :
                  \/ ms' = loopClosure(ms, kf_prev_idx, FALSE, <<>>, <<>>)
                  \/ /\ Len(ms.lc_idx_list) < MaxLC
                     /\ \E mpt \in Matchings(NPt, NPt) : \E mls \in Matchings(NLs, NLs) :
                           ms' = loopClosure(ms, kf_prev_idx, TRUE, mpt, mls)
    /\ mpc' = "lc_comp"
    /\ UNCHANGED <<build, mtVars>>

\* the "LC computation" run the way the unused loopClosureThread would allow it:
\* also before the local optimization of the keyframe, while a loop edge is pending
Op_LoopCorrectionAnyTime ==
    /\ mpc \in {"local_map", "lc_comp"}
    /\ ms' = IF ms.lc_state = LC_READY \/ (mpc = "local_map" /\ ms.lc_state = LC_ACTIVE)
             THEN loopClosureOptimizationCovGraphG2O(ms)
             ELSE ms
    /\ mpc' = IF ms'.h_ub THEN "ub" ELSE IF mpc = "lc_comp" THEN "idle" ELSE mpc
    /\ UNCHANGED <<build, mtVars>>

\* loopClosure(), "LC computation":
\* if (lc_state == LC_READY) { loopClosureOptimizationCovGraphG2O(); lc_state = LC_IDLE; }
Op_LoopClosureOptimization ==
    /\ mpc = "lc_comp"
    /\ ms' = IF ms.lc_state = LC_READY THEN loopClosureOptimizationCovGraphG2O(ms) ELSE ms
    /\ mpc' = IF ms'.h_ub THEN "ub" ELSE "idle"
    /\ UNCHANGED <<build, mtVars>>

\* loopClosureFuseLandmarks() called on the store at rest while a loop edge is
\* marked unoptimized (without such an edge the call changes nothing)
Op_FuseLandmarks ==
    /\ mpc = "idle"
    /\ ms.h_fuse_calls < MaxFuse
    /\ \E e \in 1..Len(ms.lc_idx_list) : ms.lc_idx_list[e][3] = 1
    /\ ms' = [loopClosureFuseLandmarks(ms) EXCEPT !.h_fuse_calls = @ + 1]
    /\ mpc' = IF ms'.h_ub THEN "ub" ELSE "idle"
    /\ UNCHANGED <<build, mtVars>>

NextMap ==
    \/ Op_Initialize \/ Op_AddKeyFrame
    \/ Op_LookForCommonMatches \/ Op_LocalMapping
    \/ Op_LoopClosure \/ Op_LoopClosureOptimization

SpecMap == InitMap /\ [][NextMap]_vars

NextFuse == NextMap \/ Op_FuseLandmarks

SpecFuse == InitMap /\ [][NextFuse]_vars

\* the keyframe index up to which keyframes without any match are added
MaxKFQuiet == 11

\* addKeyFrame(curr_kf) from entry to return for a keyframe whose point features are
\* not matched, whose line features are matched with the previous keyframe as mls
\* says, for which lookForLoopCandidates returns no candidate, and whose
\* optimization pass moves every local line landmark by more than 0.01 if moved is
\* true (custom optimizer) and finds nothing out of tolerance otherwise
TrackKeyFrame(s, b, mls, moved) ==
    LET none == [pt |-> {}, ls |-> {}]
        s0 == NewKeyFrame(s, b.multithread)
        kf2 == s0.max_kf_idx
        s1 == matchKF2KFLines(matchKF2KFPoints(s0, kf2 - 1, kf2, [i \in 1..NPt |-> 0]),
                              kf2 - 1, kf2, mls, {})
        s2 == MatchMap2KF(MatchMap2KF(s1, Pt, kf2, {}), Ls, kf2, {})
        s3 == formLocalMap(IF b.multithread THEN s2 ELSE PushKeyFrame(s2), kf2)
        s4 == IF b.multithread /\ b.pluker
              THEN removeBadMapLandmarksForPluker(localBundleAdjustmentForPlukerWithG2O(s3, none))
              ELSE removeBadMapLandmarks(
                       localBundleAdjustment(s3, IF moved
                                                 THEN [pt |-> {}, ls |-> LocalLMs(s3, Ls)]
                                                 ELSE none))
        s5 == IF b.multithread THEN s4 ELSE loopClosure(s4, NULL, FALSE, <<>>, <<>>)
    IN IF ~b.multithread /\ s5.lc_state = LC_READY
       THEN loopClosureOptimizationCovGraphG2O(s5)
       ELSE s5

\* addKeyFrame(curr_kf) from entry to return for a keyframe none of whose features
\* is matched, whose optimization pass finds nothing out of tolerance and for which
\* lookForLoopCandidates returns no candidate
QuietKeyFrame(s, b) == TrackKeyFrame(s, b, [i \in 1..NLs |-> 0], FALSE)

Op_QuietKeyFrame ==
    /\ mpc = "idle"
    /\ ms.max_kf_idx >= MaxKF
    /\ ms.max_kf_idx < MaxKFQuiet
    /\ ms' = QuietKeyFrame(ms, build)
    /\ mpc' = IF ms'.h_ub THEN "ub" ELSE "idle"
    /\ UNCHANGED <<build, mtVars>>

NextCull == NextMap \/ Op_QuietKeyFrame

SpecCull == InitMap /\ [][NextCull]_vars


\* ------------------------------------------------------------------ claims on the Map Store

\* C5: after initialize and after every operation that changes the covisibility
\* matrix (expansion, association, observation pruning, fusion),
\* full_graph[i][j] = full_graph[j][i] for all keyframe indices i and j.
C5_FullGraphSymmetric ==
    \A i, j \in 1..Len(ms.full_graph) : ms.full_graph[i][j] = ms.full_graph[j][i]

\* association and a fusion that merged two landmarks have both written the matrix
C5_Witness ==
    /\ mpc = "idle"
    /\ ms.h_merges # {}
    /\ \E i, j \in 1..Len(ms.full_graph) : i # j /\ ms.full_graph[i][j] > 1

\* C6: once an operation has completed, the keyframe of the first observation of
\* every resident point or line landmark lists the landmark in its anchor index
\* (map_points_kf_idx for points, map_lines_kf_idx for lines).
C6_FirstObserverAnchors ==
    mpc = "idle" =>
        \A k \in Kinds : \A lm \in 1..Len(ms[MapF(k)]) :
            LET p == ms[MapF(k)][lm] IN
            p.resident =>
                /\ p.kf_obs_list[1] + 1 <= Len(ms[AnchorF(k)])
                /\ FirstPos(ms[AnchorF(k)][p.kf_obs_list[1] + 1], lm - 1, 1) # 0

\* C7: lc_state changes only from IDLE to ACTIVE (a loop edge is recorded), from
\* ACTIVE to READY (no loop edge is recorded) and from READY to IDLE (a pose-graph
\* optimization has run); a pose-graph optimization starts only in READY.
C7_LcStateTransitions ==
    [][/\ ms'.lc_state # ms.lc_state =>
            \/ /\ ms.lc_state = LC_IDLE
               /\ ms'.lc_state = LC_ACTIVE
               /\ Len(ms'.lc_idx_list) = Len(ms.lc_idx_list) + 1
            \/ /\ ms.lc_state = LC_ACTIVE
               /\ ms'.lc_state = LC_READY
               /\ ms'.lc_idx_list = ms.lc_idx_list
            \/ /\ ms.lc_state = LC_READY
               /\ ms'.lc_state = LC_IDLE
               /\ Len(ms'.h_pgo) = Len(ms.h_pgo) + 1
       /\ ms'.h_pgo # ms.h_pgo => ms.lc_state = LC_READY]_vars

\* the loop corrector is back in IDLE after a pose-graph optimization
C7_Witness ==
    /\ mpc = "idle"
    /\ ms.lc_state = LC_IDLE
    /\ Len(ms.h_pgo) > 0

\* C8: the unoptimized marker of a loop edge is cleared only after the fusion has
\* processed the correspondences recorded for that edge.
C8_MarkerClearedAfterFusion ==
    \A e \in 1..Len(ms.lc_idx_list) : ms.lc_idx_list[e][3] = 0 => e \in ms.h_fused

\* C9: when the fusion merges landmark B (later side of the loop edge) into a
\* different landmark A (earlier side), the observations of A are afterwards its
\* former observations followed by those of B in order, and the slot of B is null.
C9_MergeAppendsAndNullsB ==
    \A r \in ms.h_merges :
        r.a # r.b =>
            /\ r.postA = r.preA \o r.preB
            /\ Len(r.postA) = Len(r.preA) + Len(r.preB)
            /\ r.slotB = nullptr

\* a merge of two landmarks with two observations each has been performed
C9_Witness ==
    \E r \in ms.h_merges : r.a # r.b /\ Len(r.preA) > 1 /\ Len(r.preB) > 1

SetOf(q) == {q[i] : i \in 1..Len(q)}

\* keyframes i and j share the fused landmark only since the merge r: one observed
\* A and the other B, and neither landmark was observed by both
NewlyShared(r, i, j) ==
    /\ i # j
    /\ \/ i \in SetOf(r.preA) /\ j \in SetOf(r.preB)
       \/ j \in SetOf(r.preA) /\ i \in SetOf(r.preB)
    /\ ~({i, j} \subseteq SetOf(r.preA))
    /\ ~({i, j} \subseteq SetOf(r.preB))

\* C10: a merge of landmark B into landmark A increments the covisibility matrix
\* exactly once for every keyframe pair that newly shares the fused landmark, and
\* changes no entry of a pair that shared it before and no diagonal entry.
C10_MergeCountsNewPairsOnce ==
    \A r \in ms.h_merges :
        \A i, j \in 0..(Len(r.g0) - 1) :
            r.g1[i + 1][j + 1] =
                r.g0[i + 1][j + 1] + (IF NewlyShared(r, i, j) THEN 1 ELSE 0)

\* C11: every keyframe feature whose landmark index is not -1 refers to a resident
\* (non-null) slot of the landmark table of its kind, after association, pruning,
\* culling and fusion.
C11_FeaturesReferenceResidentLandmarks ==
    mpc = "idle" =>
        \A k \in Kinds : \A kf \in 1..Len(ms[FeatF(k)]) : \A i \in 1..NFeat(k) :
            LET idx == ms[FeatF(k)][kf][i] IN
            idx # -1 => /\ idx + 1 <= Len(ms[MapF(k)])
                        /\ ms[MapF(k)][idx + 1].resident

\* the number of resident landmarks of both kinds observed by keyframes i and j
Shared(s, i, j) ==
    Cardinality({lm \in 1..Len(s.map_points) :
                    /\ s.map_points[lm].resident
                    /\ {i, j} \subseteq SetOf(s.map_points[lm].kf_obs_list)})
    + Cardinality({lm \in 1..Len(s.map_lines) :
                    /\ s.map_lines[lm].resident
                    /\ {i, j} \subseteq SetOf(s.map_lines[lm].kf_obs_list)})

\* C12: once an operation has completed, every off-diagonal entry [i][j] of the
\* covisibility matrix is the number of resident landmarks whose observation list
\* contains both keyframe i and keyframe j.
C12_FullGraphCountsSharedLandmarks ==
    mpc = "idle" =>
        \A i, j \in 0..(Len(ms.full_graph) - 1) :
            i # j => ms.full_graph[i + 1][j + 1] = Shared(ms, i, j)

\* C13: a loopClosure step in which lookForLoopCandidates returns no candidate (the
\* best eligible score is below the adaptive floor) leaves lc_state and the
\* recorded loop edges as they were before the step.
C13_NoCandidateLeavesLoopCorrector ==
    [][(mpc = "lc" /\ mpc' = "lc_comp" /\ ms'.h_cand = NULL) =>
            /\ ms'.lc_state = ms.lc_state
            /\ ms'.lc_idx_list = ms.lc_idx_list]_vars

\* C15: the loop correction (pose-graph optimization, rewrite of poses and
\* landmarks, fusion) runs only in the "LC computation" step of loopClosure, after
\* the local optimization of the keyframe has completed; in pipeline mode, where
\* the optimization runs on the worker thread, it does not run at all.
C15_LoopCorrectionNotDuringLocalOptimization ==
    [][(ms'.h_pgo # ms.h_pgo \/ ms'.h_fused # ms.h_fused) =>
            /\ mpc = "lc_comp"
            /\ ~build.multithread]_vars

\* a loop correction has run in a sequential run whose local optimization found an
\* outlier
C15_Witness ==
    /\ ~build.multithread
    /\ Len(ms.h_pgo) > 0
    /\ ms.h_outliers > 0

\* C16: in pipeline mode every keyframe whose pass has completed has been
\* evaluated by the loop detector (loopClosure has run for it).
C16_PipelineRunsLoopDetection ==
    (build.multithread /\ mpc = "idle") => \A kf \in 1..ms.max_kf_idx : kf \in ms.h_lc_kfs

\* the accepted matches of m whose feature of the previous keyframe has idx -1
NewMatches(s, k, kf1, m) == {i1 \in 1..Len(m) : m[i1] # 0 /\ s[FeatF(k)][kf1 + 1][i1] = -1}

\* the accepted matches of m whose feature of the previous keyframe names a
\* resident landmark
OldMatches(s, k, kf1, m) ==
    {i1 \in 1..Len(m) :
        /\ m[i1] # 0
        /\ s[FeatF(k)][kf1 + 1][i1] # -1
        /\ s[MapF(k)][s[FeatF(k)][kf1 + 1][i1] + 1] # nullptr}

\* what the claim states about the store t that the keyframe-to-keyframe matcher of
\* kind k leaves when it is run on s for the pair (kf1, kf2) with the matches m
NewLandmarkPerMatch(s, t, k, kf1, kf2, m) ==
    LET new == NewMatches(s, k, kf1, m)
        Idx(i1) == t[FeatF(k)][kf1 + 1][i1]
    IN  /\ t[MaxF(k)] = s[MaxF(k)] + Cardinality(new)
        /\ Len(t[MapF(k)]) = Len(s[MapF(k)]) + Cardinality(new)
        /\ \A i1 \in new :
              /\ Idx(i1) >= s[MaxF(k)]
              /\ Idx(i1) < t[MaxF(k)]
              /\ t[FeatF(k)][kf2 + 1][m[i1]] = Idx(i1)
              /\ t[MapF(k)][Idx(i1) + 1].resident
              /\ t[MapF(k)][Idx(i1) + 1].kf_obs_list = <<kf1, kf2>>
              /\ FirstPos(t[AnchorF(k)][kf1 + 1], Idx(i1), 1) # 0
              /\ \A j1 \in new : j1 # i1 => Idx(j1) # Idx(i1)
        /\ t.full_graph[kf1 + 1][kf2 + 1] =
              s.full_graph[kf1 + 1][kf2 + 1] + Cardinality(new)
                + Cardinality(OldMatches(s, k, kf1, m))
        /\ t.full_graph[kf2 + 1][kf1 + 1] =
              s.full_graph[kf2 + 1][kf1 + 1] + Cardinality(new)
                + Cardinality(OldMatches(s, k, kf1, m))

\* C18: in matchKF2KFPoints and matchKF2KFLines every accepted match whose feature
\* of the previous keyframe has idx -1 creates exactly one landmark observed by
\* [prev, curr], registered in the anchor index of prev, named by both features,
\* with the landmark counter advanced by one and the covisibility entries of the
\* pair incremented by one in both directions; after the association of keyframes 0
\* and 1 on an empty map the entry [0][1] is the number of landmarks created.
C18_NewLandmarkPerUnmatchedFeature ==
    /\ mpc = "match" =>
          LET kf2 == ms.max_kf_idx IN
          /\ \A m \in Matchings(NPt, NPt) :
                NewLandmarkPerMatch(ms, matchKF2KFPoints(ms, kf2 - 1, kf2, m),
                                    Pt, kf2 - 1, kf2, m)
          /\ \A m \in Matchings(NLs, NLs) :
                NewLandmarkPerMatch(ms, matchKF2KFLines(ms, kf2 - 1, kf2, m, {}),
                                    Ls, kf2 - 1, kf2, m)
    /\ (mpc = "local_map" /\ ms.max_kf_idx = 1) =>
          /\ ms.full_graph[1][2] = ms.max_pt_idx + ms.max_ls_idx
          /\ ms.full_graph[2][1] = ms.max_pt_idx + ms.max_ls_idx

\* keyframes 0 and 1 have been associated on the empty map with every point and
\* line feature matched
C18_Witness ==
    /\ mpc = "local_map"
    /\ ms.max_kf_idx = 1
    /\ ms.max_pt_idx = NPt
    /\ ms.max_ls_idx = NLs
    /\ ms.full_graph[1][2] = NPt + NLs

\* ------------------------------------------------------------------ the two matrices
\* The sequential path of addKeyFrame restricted to full_graph and conf_matrix, with
\* the contents of conf_matrix kept (the Map Store model above takes the column of
\* the current keyframe as an input of loopClosure instead). ms is the record
\* [full_graph, conf_matrix, max_kf_idx, h_expands], h_expands counting the calls of
\* expandGraphs.
InitGraph ==
    /\ threads_started = FALSE
    /\ kf_queue = <<>>
    /\ curr_kf_mt = NULL
    /\ prev_kf_mt = NULL
    /\ lba_thread_status = LBA_IDLE
    /\ curr_kf = NULL
    /\ prev_kf = NULL
    /\ max_kf_idx = 0
    /\ graph_size = 0
    /\ n_keyframes = 0
    /\ pc = [t \in Threads |-> "unborn"]
    /\ new_kf = {}
    /\ lba_start = {}
    /\ lba_join = {}
    /\ enqueued = <<>>
    /\ mt_log = <<>>
    /\ ms = [full_graph |-> <<>>, conf_matrix |-> <<>>, max_kf_idx |-> 0, h_expands |-> 0]
    /\ mpc = "g_start"
    /\ build = [multithread |-> FALSE, pluker |-> FALSE]

\* initialize(kf0): both matrices 1 x 1, full_graph[0][0] = 0, conf_matrix[0][0] = 1.0
G_Initialize ==
    /\ mpc = "g_start"
    /\ ms' = [ms EXCEPT !.full_graph = << <<0>> >>,
                         !.conf_matrix = << <<ScoreOne>> >>,
                         !.max_kf_idx = 0]
    /\ mpc' = "g_idle"
    /\ UNCHANGED <<build, mtVars>>

\* addKeyFrame: expandGraphs(); max_kf_idx++
G_AddKeyFrame ==
    /\ mpc = "g_idle"
    /\ ms.max_kf_idx < MaxKF
    /\ ms' = [ms EXCEPT !.full_graph = expandGraphs(@),
                         !.conf_matrix = expandGraphs(@),
                         !.max_kf_idx = @ + 1,
                         !.h_expands = @ + 1]
    /\ mpc' = "g_assoc"
    /\ UNCHANGED <<build, mtVars>>

\* full_graph[kf2][obs]++; full_graph[obs][kf2]++ once for every landmark the
\* association finds shared by the current keyframe and keyframe obs
RECURSIVE AddShared(_, _, _, _)
AddShared(g, kf2, obs, n) ==
    IF obs >= kf2 THEN g
    ELSE IF n[obs] = 0 THEN AddShared(g, kf2, obs + 1, n)
    ELSE AddShared(IncPair(g, kf2, obs), kf2, obs, [n EXCEPT ![obs] = @ - 1])

\* lookForCommonMatches: n[obs] is the number of landmarks the matchers find shared
\* by the current keyframe and keyframe obs
G_LookForCommonMatches ==
    /\ mpc = "g_assoc"
    /\ \E n \in [0..(ms.max_kf_idx - 1) -> 0..NPt] :
          ms' = [ms EXCEPT !.full_graph = AddShared(@, ms.max_kf_idx, 0, n)]
    /\ mpc' = "g_bow"
    /\ UNCHANGED <<build, mtVars>>

\* insertKFBowVectorP / L / PL: col[i] is the score of the keyframe against keyframe
\* i, col[idx] the score against itself
insertKFBowVector(c, idx, col) ==
    Tuple([i \in 1..Len(c) |->
             Tuple([j \in 1..Len(c) |->
                      IF i = idx + 1 THEN col[j - 1]
                      ELSE IF j = idx + 1 THEN col[i - 1]
                      ELSE c[i][j]], Len(c))], Len(c))

G_InsertKFBowVector ==
    /\ mpc = "g_bow"
    /\ \E col \in [0..ms.max_kf_idx -> Scores] :
          ms' = [ms EXCEPT !.conf_matrix = insertKFBowVector(@, ms.max_kf_idx, col)]
    /\ mpc' = "g_idle"
    /\ UNCHANGED <<build, mtVars>>

NextGraph == G_Initialize \/ G_AddKeyFrame \/ G_LookForCommonMatches \/ G_InsertKFBowVector

SpecGraph == InitGraph /\ [][NextGraph]_vars

\* matrix g is square of dimension n
Square(g, n) == Len(g) = n /\ \A i \in 1..n : Len(g[i]) = n

\* every cell of g has its value in h
KeepsCells(g, h) ==
    \A i \in 1..Len(g) : \A j \in 1..Len(g[i]) :
        i <= Len(h) /\ j <= Len(h[i]) /\ h[i][j] = g[i][j]

\* C19: after initialize and any number of addKeyFrame calls the covisibility and
\* the similarity matrix are square of dimension max_kf_idx + 1; the matrices are
\* expanded once per addKeyFrame, in the step before the association for that
\* keyframe, and the expansion keeps the value of every existing cell.
C19_GraphsSquareAndExpandedOnce ==
    /\ [](mpc # "g_start" =>
            /\ Square(ms.full_graph, ms.max_kf_idx + 1)
            /\ Square(ms.conf_matrix, ms.max_kf_idx + 1)
            /\ ms.h_expands = ms.max_kf_idx)
    /\ [][/\ (Len(ms'.full_graph) # Len(ms.full_graph) \/ Len(ms'.conf_matrix) # Len(ms.conf_matrix)
             \/ ms'.h_expands # ms.h_expands) =>
                \/ mpc = "g_start"
                \/ /\ mpc = "g_idle"
                   /\ mpc' = "g_assoc"
                   /\ ms'.h_expands = ms.h_expands + 1
                   /\ KeepsCells(ms.full_graph, ms'.full_graph)
                   /\ KeepsCells(ms.conf_matrix, ms'.conf_matrix)
          /\ (mpc = "g_assoc" \/ mpc = "g_bow") =>
                /\ Len(ms'.full_graph) = Len(ms.full_graph)
                /\ Len(ms'.conf_matrix) = Len(ms.conf_matrix)]_vars

\* the third keyframe has been added after the first two were found to share
\* landmarks and to be similar
C19_Witness ==
    /\ mpc = "g_assoc"
    /\ ms.max_kf_idx = 2
    /\ ms.full_graph[1][2] > 0
    /\ ms.conf_matrix[1][2] > 0
    /\ ms.conf_matrix[1][1] = ScoreOne

\* ------------------------------------------------------------------ further claims on the pipeline

\* C14: once killThreads has returned, the dispatcher and the local-mapping worker
\* have both left their thread functions and take no further step.
C14_NoWorkerStepAfterKillThreads ==
    pc[Caller] = "done" => \A t \in {Handler, Worker} : pc[t] = "done"

\* C17: after startThreads has set it to LBA_IDLE, lba_thread_status changes only
\* from IDLE to ACTIVE (written by the dispatcher after a dequeue), from ACTIVE to
\* IDLE (written by the worker at the end of a pass) and from ACTIVE to TERMINATED
\* (written by the worker that found the sentinel); TERMINATED is never left.
C17_LbaStatusTransitions ==
    [][(pc[Caller] \notin {"initialize", "st_status"}
            /\ lba_thread_status' # lba_thread_status) =>
          \/ /\ lba_thread_status = LBA_IDLE
             /\ lba_thread_status' = LBA_ACTIVE
             /\ pc[Handler] = "h_setactive"
          \/ /\ lba_thread_status = LBA_ACTIVE
             /\ lba_thread_status' = LBA_IDLE
             /\ pc[Worker] = "w_lba"
          \/ /\ lba_thread_status = LBA_ACTIVE
             /\ lba_thread_status' = LBA_TERMINATED
             /\ pc[Worker] = "w_term"
             /\ (curr_kf_mt = NULL \/ prev_kf_mt = NULL)]_vars

\* the worker has completed a pass and has terminated on the sentinel
C17_Witness ==
    /\ lba_thread_status = LBA_TERMINATED
    /\ pc[Worker] = "done"
    /\ Len(mt_log) > 0

\* C20: every keyframe pair enqueued before the sentinel has had a worker pass that
\* matched it, in enqueue order, by the time the worker is TERMINATED, and no
\* enqueued pair is left unprocessed when the pipeline has come to rest in killThreads.
C20_EveryEnqueuedPairProcessed ==
    /\ (lba_thread_status = LBA_TERMINATED /\ pc[Caller] \notin {"initialize", "st_status"}) =>
          /\ Len(mt_log) = Len(enqueued)
          /\ \A i \in 1..Len(mt_log) :
                mt_log[i].deq = enqueued[i] /\ mt_log[i].used = enqueued[i]
    /\ (pc[Caller] = "kill_wait" /\ ~ENABLED NextMT) => Len(mt_log) = Len(enqueued)

\* ------------------------------------------------------------------ further claims on the Map Store
\* C21: at rest (after every observation add, observation removal and landmark
\* fusion) the per-observation lists of every resident landmark have the same
\* length: the owning-keyframe list (with it the descriptor list), the observation
\* list (with it the direction list), for a line of the Pluecker build the 4D
\* observation list, and the sigma list the optimizer indexes by observation.
C21_ObservationListsSameLength ==
    mpc \in {"idle", "lc"} =>
        \A k \in Kinds : \A lm \in 1..Len(ms[MapF(k)]) :
            LET p == ms[MapF(k)][lm] IN
            p # nullptr =>
                /\ p.obs_size = Len(p.kf_obs_list)
                /\ p.sigma_size = Len(p.kf_obs_list)
                /\ (k = Ls /\ build.pluker) => p.NDw_size = Len(p.kf_obs_list)

\* ------------------------------------------------------------------ the Levenberg-Marquardt loop
\* levMarquardtOptimizationLBA (and levMarquardtOptimizationLBAForPluker, which has
\* the same loop) on its own. The parameter vector X is a value of 0..MaxX, the total
\* weighted error of the local map at X is E[X], the solution DX of the damped normal
\* equations is any step that keeps X in range. ms is
\* [E, NObs, NLm, X, err, err_prev, lambda, iters, published, h_steps]: err and
\* err_prev are fractions [n, d], lambda the exponent of lambda_k, published the
\* vector written to the Map Store, h_steps the steps that were added to X.
MaxX == 3
MaxErr == 2
max_iters == 3
minErrorChange == 1
minError == 1

\* the containers of the Map Store and the pipeline play no part
OtherVarsAtRest ==
    /\ threads_started = FALSE
    /\ kf_queue = <<>>
    /\ curr_kf_mt = NULL
    /\ prev_kf_mt = NULL
    /\ lba_thread_status = LBA_IDLE
    /\ curr_kf = NULL
    /\ prev_kf = NULL
    /\ max_kf_idx = 0
    /\ graph_size = 0
    /\ n_keyframes = 0
    /\ pc = [t \in Threads |-> "unborn"]
    /\ new_kf = {}
    /\ lba_start = {}
    /\ lba_join = {}
    /\ enqueued = <<>>
    /\ mt_log = <<>>
    /\ build = [multithread |-> FALSE, pluker |-> FALSE]

\* x > y for fractions with positive denominators
FracGreater(x, y) == x.n * y.d > y.n * x.d
\* abs(x - y) < c
FracCloser(x, y, c) == Abs(x.n * y.d - y.n * x.d) < c * x.d * y.d

\* entry of levMarquardtOptimizationLBA: X = X_aux, err_prev = 999999999.9, the
\* observation lists have NObs entries on NLm landmarks
InitLM ==
    /\ OtherVarsAtRest
    /\ \E E \in [0..MaxX -> 0..MaxErr], X \in 0..MaxX, NObs \in 1..2 :
          ms = [E |-> E, NObs |-> NObs, NLm |-> 1, X |-> X,
                err |-> [n |-> 0, d |-> 1], err_prev |-> [n |-> 999999999, d |-> 1],
                lambda |-> 0, iters |-> 0, published |-> NULL, h_steps |-> <<>>]
    /\ mpc = "lm_first"

\* the steps the solver can return at X
Steps(X) == {dx \in -1..1 : X + dx \in 0..MaxX}

\* "solve the first iteration": err /= (Npt_obs + Nls_obs); DX = solve(g); the update
\* of X; err_prev = err
LM_FirstIteration ==
    /\ mpc = "lm_first"
    /\ \E DX \in Steps(ms.X) :
          LET err == [n |-> ms.E[ms.X], d |-> ms.NObs] IN
          ms' = [ms EXCEPT !.err = err,
                           !.X = @ + DX,
                           !.h_steps = Append(@, <<ms.X, ms.X + DX>>),
                           !.err_prev = err,
                           !.iters = 1]
    /\ mpc' = "lm_loop"
    /\ UNCHANGED <<build, mtVars>>

\* body of the loop for (iters = 1; iters < max_iters; iters++): the error at X,
\* err /= (Npt + Nls), the two stopping tests, the solution DX, the update of lambda
\* and of X, err_prev = err
LM_IterationBody(DX) ==
    LET err == [n |-> ms.E[ms.X], d |-> ms.NLm] IN
    IF FracCloser(err, ms.err_prev, minErrorChange) \/ FracGreater([n |-> minError, d |-> 1], err)
    THEN /\ ms' = [ms EXCEPT !.err = err]
         /\ mpc' = "lm_publish"
    ELSE LET upd == IF FracGreater(err, ms.err_prev)
                    THEN [ms EXCEPT !.err = err, !.lambda = @ - 1]
                    ELSE [ms EXCEPT !.err = err, !.lambda = @ + 1,
                                    !.X = @ + DX,
                                    !.h_steps = Append(@, <<ms.X, ms.X + DX>>)]
         IN IF Abs(DX) < minErrorChange
            THEN /\ ms' = upd
                 /\ mpc' = "lm_publish"
            ELSE /\ ms' = [upd EXCEPT !.err_prev = err, !.iters = @ + 1]
                 /\ mpc' = "lm_loop"

LM_Iteration ==
    /\ mpc = "lm_loop"
    /\ ms.iters < max_iters
    /\ \E DX \in Steps(ms.X) : LM_IterationBody(DX)
    /\ UNCHANGED <<build, mtVars>>

\* iters reaches max_iters
LM_MaxIterations ==
    /\ mpc = "lm_loop"
    /\ ms.iters >= max_iters
    /\ mpc' = "lm_publish"
    /\ UNCHANGED <<ms, build, mtVars>>

\* "Update KFs and LMs": X is written to the keyframes and landmarks unless the
\* front end is inserting a keyframe (vo_status == VO_INSERTING_KF)
LM_Publish ==
    /\ mpc = "lm_publish"
    /\ \E inserting \in BOOLEAN :
          ms' = IF inserting THEN ms ELSE [ms EXCEPT !.published = ms.X]
    /\ mpc' = "lm_done"
    /\ UNCHANGED <<build, mtVars>>

NextLM == LM_FirstIteration \/ LM_Iteration \/ LM_MaxIterations \/ LM_Publish

SpecLM == InitLM /\ [][NextLM]_vars

\* C22: a step after which the total weighted error is larger than before it is
\* rejected: when the loop has ended, no step that is part of the parameter vector
\* (and so of what is written to the Map Store) raised the error, the first step
\* included.
C22_WorseStepRejected ==
    mpc \in {"lm_publish", "lm_done"} =>
        \A i \in 1..Len(ms.h_steps) : ms.E[ms.h_steps[i][2]] <= ms.E[ms.h_steps[i][1]]

\* ------------------------------------------------------------------ claims on the optimizers
\* C23: in the custom Local Optimizer what is judged out of tolerance after
\* convergence is removed when its landmark has more than one observation: a step of
\* localBundleAdjustment that turns the inlier flag of a landmark with more than
\* one observation off takes an observation out of the landmark's lists, resets
\* the feature of the observing keyframe and lowers the keyframe's covisibility
\* counts.
C23_CustomOptimizerRemovesOutliers ==
    [][(mpc = "local_map" /\ ~(build.multithread /\ build.pluker)) =>
          \A k \in Kinds : \A lm \in 1..Len(ms[MapF(k)]) :
              LET p == ms[MapF(k)][lm]
                  q == ms'[MapF(k)][lm]
              IN (p # nullptr /\ q # nullptr /\ p.inlier /\ ~q.inlier /\ Len(p.kf_obs_list) > 1) =>
                    /\ Len(q.kf_obs_list) < Len(p.kf_obs_list)
                    /\ ms'[FeatF(k)] # ms[FeatF(k)]
                    /\ ms'.full_graph # ms.full_graph]_vars

\* C24: observation pruning after local optimization never removes a landmark's
\* last observation: every resident landmark has at least one entry in each of its
\* observation lists, and a pruning pass leaves the list of a landmark that has one
\* observation as it is (the landmark is flagged non-inlier instead).
C24_PruningKeepsLastObservation ==
    /\ [](\A k \in Kinds : \A lm \in 1..Len(ms[MapF(k)]) :
            LET p == ms[MapF(k)][lm] IN
            p # nullptr =>
                /\ Len(p.kf_obs_list) >= 1
                /\ p.obs_size >= 1
                /\ p.NDw_size >= 1)
    /\ [][(mpc = "local_map" /\ build.multithread /\ build.pluker) =>
            \A k \in Kinds : \A lm \in 1..Len(ms[MapF(k)]) :
                LET p == ms[MapF(k)][lm]
                    q == ms'[MapF(k)][lm]
                IN (p # nullptr /\ q # nullptr /\ Len(p.kf_obs_list) = 1) =>
                      q.kf_obs_list = p.kf_obs_list]_vars

\* a pruning pass has met a bad edge that was its landmark's only observation
C24_Witness ==
    /\ mpc = "idle"
    /\ build.multithread /\ build.pluker
    /\ \E k \in Kinds : \E lm \in 1..Len(ms[MapF(k)]) :
          LET p == ms[MapF(k)][lm] IN
          p # nullptr /\ Len(p.kf_obs_list) = 1 /\ ~p.inlier

\* ------------------------------------------------------------------ the loop detector
\* lookForLoopCandidates on its own, for the configurations cfg =
\* [lcKFDist, lcKFMaxDist, lcNKFClosest, minKFLocalMap, minLMCovGraph]. Scores are
\* in fifths: LcOne is 1.0 and 0 stands for a score <= 0.001. ms is
\* [kf_curr_idx, col, cov, cfg, result, h_first]: col[i] is
\* conf_matrix[i][kf_curr_idx], cov[i] is full_graph[i][kf_curr_idx], result the
\* pair the call returns, h_first the keyframe the sort left in max_confmat[0]
\* (NULL when max_confmat is empty).
\* Keyframes are never deleted (removeRedundantKFs has no caller), so every
\* map_keyframes[i] is resident.
MaxKFCand == 4
LcOne == 5
LcScores == {0, 3, 4, LcOne}
LcConfigs ==
    [lcKFDist : 0..1, lcKFMaxDist : 0..1, lcNKFClosest : 0..1,
     minKFLocalMap : {0}, minLMCovGraph : {minLMCovGraph}]

\* for (i = 0; i < kf_curr_idx - lcKFDist; i++) max_confmat.push_back((i, conf_matrix[i][kf_curr_idx]))
RECURSIVE MaxConfmat(_, _, _, _)
MaxConfmat(col, kf_curr_idx, cfg, i) ==
    IF i >= kf_curr_idx - cfg.lcKFDist THEN <<>>
    ELSE <<<<i, col[i]>>>> \o MaxConfmat(col, kf_curr_idx, cfg, i + 1)

\* sort(max_confmat.begin(), max_confmat.end(), sort_confmat_by_score()): the
\* orders in which no entry is followed by one of higher score
SortedByScore(q) ==
    {p \in [1..Len(q) -> SetOf(q)] :
        /\ \A i, j \in 1..Len(q) : i # j => p[i] # p[j]
        /\ \A i \in 1..(Len(q) - 1) : p[i][2] >= p[i + 1][2]}

\* "find the minimum score in the covisibility graph"
RECURSIVE LcMinScore(_, _, _, _, _, _)
LcMinScore(col, cov, kf_curr_idx, cfg, i, lc_min_score) ==
    IF i >= kf_curr_idx THEN lc_min_score
    ELSE LcMinScore(col, cov, kf_curr_idx, cfg, i + 1,
             IF /\ cov[i] >= cfg.minLMCovGraph \/ kf_curr_idx - i <= cfg.minKFLocalMap + 3
                /\ col[i] < lc_min_score /\ col[i] > 0
             THEN col[i] ELSE lc_min_score)

\* a count that takes every entry of the sorted list, the best match included
NkfClosestFromFirst(max_confmat, i, idx_max, lc_min_score, cfg) ==
    Cardinality({j \in 1..Len(max_confmat) :
                    /\ Abs(max_confmat[j][1] - idx_max) <= cfg.lcKFMaxDist
                    /\ 10 * max_confmat[j][2] >= 8 * lc_min_score})

\* for (i = 1; i < max_confmat.size(); i++) if (abs(idx - idx_max) <= lcKFMaxDist &&
\* score >= lc_min_score * 0.8) Nkf_closest++;   (i counted from 1 here: entry i + 1)
RECURSIVE NkfClosest(_, _, _, _, _)
NkfClosest(max_confmat, i, idx_max, lc_min_score, cfg) ==
    IF i > Len(max_confmat) THEN 0
    ELSE (IF /\ Abs(max_confmat[i][1] - idx_max) <= cfg.lcKFMaxDist
             /\ 10 * max_confmat[i][2] >= 8 * lc_min_score
          THEN 1 ELSE 0)
         + NkfClosest(max_confmat, i + 1, idx_max, lc_min_score, cfg)

\* the body of lookForLoopCandidates after the sort has left max_confmat as sorted
LookForLoopCandidatesSorted(col, cov, kf_curr_idx, cfg, sorted) ==
    LET none == [is_lc_candidate |-> FALSE, kf_prev_idx |-> -1] IN
    IF Len(sorted) > cfg.lcKFMaxDist
    THEN LET lc_min_score == LcMinScore(col, cov, kf_curr_idx, cfg, 0, LcOne)
             idx_max == sorted[1][1]
         IN IF sorted[1][2] >= lc_min_score
            THEN IF NkfClosest(sorted, 2, idx_max, lc_min_score, cfg) >= cfg.lcNKFClosest
                 THEN [is_lc_candidate |-> TRUE, kf_prev_idx |-> idx_max]
                 ELSE none
            ELSE none
    ELSE none

InitCand ==
    /\ OtherVarsAtRest
    /\ \E k \in 1..MaxKFCand, cfg \in LcConfigs :
       \E col \in [0..(k - 1) -> LcScores], far \in SUBSET {i \in 0..(k - 1) : k - i > cfg.minKFLocalMap + 3} :
          ms = [kf_curr_idx |-> k, col |-> col,
                cov |-> [i \in 0..(k - 1) |-> IF i \in far THEN cfg.minLMCovGraph ELSE 0],
                cfg |-> cfg, result |-> NULL, h_first |-> NULL]
    /\ mpc = "cand_call"

\* one call lookForLoopCandidates(kf_curr_idx, kf_prev_idx)
LC_LookForLoopCandidates ==
    /\ mpc = "cand_call"
    /\ \E sorted \in SortedByScore(MaxConfmat(ms.col, ms.kf_curr_idx, ms.cfg, 0)) :
          ms' = [ms EXCEPT !.result =
                    LookForLoopCandidatesSorted(ms.col, ms.cov, ms.kf_curr_idx, ms.cfg, sorted),
                           !.h_first = IF sorted = <<>> THEN NULL ELSE sorted[1][1]]
    /\ mpc' = "cand_done"
    /\ UNCHANGED <<build, mtVars>>

NextCand == LC_LookForLoopCandidates

SpecCand == InitCand /\ [][NextCand]_vars

\* the conditions of C25 on candidate c
CandOlder(s) == {i \in 0..(s.kf_curr_idx - 1) : i < s.kf_curr_idx - s.cfg.lcKFDist}
CandFloor(s) ==
    LET near == {i \in 0..(s.kf_curr_idx - 1) :
                    \/ s.cov[i] >= s.cfg.minLMCovGraph
                    \/ s.kf_curr_idx - i <= s.cfg.minKFLocalMap + 3}
    IN Min({s.col[i] : i \in {j \in near : s.col[j] > 0}} \cup {LcOne})
CandAccepted(s, c) ==
    /\ Cardinality(CandOlder(s)) > s.cfg.lcKFMaxDist
    /\ c \in CandOlder(s)
    /\ \A i \in CandOlder(s) : s.col[i] <= s.col[c]
    /\ s.col[c] >= CandFloor(s)
    /\ Cardinality({i \in CandOlder(s) \ {c} :
                       /\ Abs(i - c) <= s.cfg.lcKFMaxDist
                       /\ 10 * s.col[i] >= 8 * CandFloor(s)}) >= s.cfg.lcNKFClosest
CandTop(s) == {c \in CandOlder(s) : \A i \in CandOlder(s) : s.col[i] <= s.col[c]}

\* C25: lookForLoopCandidates returns candidate c exactly when more than lcKFMaxDist
\* keyframes older than the trailing window exist, c has the highest similarity
\* among them, that score is at least the adaptive floor, and at least
\* lcNKFClosest other candidates within lcKFMaxDist indices of c score at least 0.8
\* times the floor; otherwise (no keyframe meets the conditions) it returns false
\* with index -1.
C25_ReturnsCandidateExactly ==
    mpc = "cand_done" =>
        /\ ms.result.is_lc_candidate => CandAccepted(ms, ms.result.kf_prev_idx)
        /\ ~ms.result.is_lc_candidate =>
              /\ ms.result.kf_prev_idx = -1
              /\ \A c \in CandOlder(ms) : ~CandAccepted(ms, c)

\* C25, amended: the conditions are decided for one keyframe only, the one the sort
\* ranks first among the keyframes of highest similarity; the call returns that
\* keyframe exactly when it meets the conditions, and false with index -1 otherwise.
C25_ReturnsRankedFirstExactly ==
    mpc = "cand_done" =>
        /\ ms.h_first # NULL => ms.h_first \in CandTop(ms)
        /\ ms.h_first = NULL => CandOlder(ms) = {}
        /\ ms.result = IF ms.h_first # NULL /\ CandAccepted(ms, ms.h_first)
                       THEN [is_lc_candidate |-> TRUE, kf_prev_idx |-> ms.h_first]
                       ELSE [is_lc_candidate |-> FALSE, kf_prev_idx |-> -1]

\* several keyframes share the highest similarity, the one ranked first meets the
\* conditions and is returned, another one of them does not meet them
C25_Witness ==
    /\ mpc = "cand_done"
    /\ ms.result.is_lc_candidate
    /\ ms.result.kf_prev_idx = ms.h_first
    /\ \E c \in CandTop(ms) : ~CandAccepted(ms, c)

\* ------------------------------------------------------------------ geometric verification
\* The decision of computeRelativePoseRobustGN on its own. ms is
\* [e, eig, N, N_inl, t, r, verdict]: e the mean residual after the refinement,
\* eig the largest eigenvalue DT_cov_eig(5) of the covariance of the relative pose,
\* N_inl of the N correspondences flagged inlier, t and r the translation and the
\* rotation (degrees) of the pose increment, verdict the value returned.
\* Thresholds: e, eig, t, r range over 0..MaxMeasure against a threshold of 1, the
\* inlier ratio is compared with lcInl = lcInlNum / lcInlDen.
MaxMeasure == 2
MaxCorr == 3
lcRes == 1
lcUnc == 1
lcTrs == 1
lcRot == 1
lcInlNum == 1
lcInlDen == 2

InitVerify ==
    /\ OtherVarsAtRest
    /\ \E e, eig, t, r \in 0..MaxMeasure, N \in 1..MaxCorr :
       \E N_inl \in 0..N :
          ms = [e |-> e, eig |-> eig, N |-> N, N_inl |-> N_inl, t |-> t, r |-> r,
                verdict |-> NULL]
    /\ mpc = "verify_call"

\* "Check whether it is Loop Closure or not" ... "Decision"
RelativePoseDecision(e, eig, N, N_inl, t, r) ==
    LET lc_res == e < lcRes
        lc_unc == eig < lcUnc
        ratio_inliers == N_inl * lcInlDen > lcInlNum * N
        \* bool lc_inl = ( ratio_inliers > lcInl ); lc_inl = true;
        lc_inl == TRUE
        lc_trs == t < lcTrs
        lc_rot == r < lcRot
    IN lc_res /\ lc_unc /\ lc_inl /\ lc_trs /\ lc_rot

\* the end of one call of computeRelativePoseRobustGN
LC_GeometricVerification ==
    /\ mpc = "verify_call"
    /\ ms' = [ms EXCEPT !.verdict = RelativePoseDecision(ms.e, ms.eig, ms.N, ms.N_inl, ms.t, ms.r)]
    /\ mpc' = "verify_done"
    /\ UNCHANGED <<build, mtVars>>

NextVerify == LC_GeometricVerification

SpecVerify == InitVerify /\ [][NextVerify]_vars

MaxInit == 3
MaxKFEdges == 4

InitEdges ==
    /\ OtherVarsAtRest
    /\ ms = [max_kf_idx |-> 0, lc_state |-> LC_IDLE,
             lc_idx_list |-> <<>>, lc_pose_list |-> <<>>,
             lc_pt_idxs |-> <<>>, lc_ls_idxs |-> <<>>,
             h_inits |-> 0, h_ub |-> FALSE]
    /\ mpc = "e_idle"

\* initialize(kf0): lc_idx_list.clear(); lc_pose_list.clear(); max_kf_idx = 0
E_Initialize ==
    /\ mpc = "e_idle"
    /\ ms.h_inits < MaxInit
    /\ ms' = [ms EXCEPT !.lc_idx_list = <<>>, !.lc_pose_list = <<>>,
                         !.max_kf_idx = 0, !.h_inits = @ + 1]
    /\ mpc' = "e_idle"
    /\ UNCHANGED <<build, mtVars>>

\* loopClosure() up to "LC computation", on the lists
loopClosureLists(s, kf_prev_idx, isLC) ==
    LET kf_curr_idx == s.max_kf_idx
        edge == <<kf_prev_idx, kf_curr_idx, s.h_inits>>
    IN IF kf_prev_idx # NULL /\ isLC
       THEN [s EXCEPT !.lc_pt_idxs = Append(@, edge),
                      !.lc_ls_idxs = Append(@, edge),
                      !.lc_pose_list = Append(@, edge),
                      !.lc_idx_list = Append(@, <<kf_prev_idx, kf_curr_idx, 1>>),
                      !.lc_state = IF @ = LC_IDLE THEN LC_ACTIVE ELSE @]
       ELSE [s EXCEPT !.lc_state = IF @ = LC_ACTIVE THEN LC_READY ELSE @]

\* "LC computation": the markers of lc_idx_list are cleared, loopClosureFuseLandmarks
\* reads lc_idx_list[lc_idx] for every position lc_idx of lc_pt_idxs / lc_ls_idxs
loopClosureComputationLists(s) ==
    IF s.lc_state = LC_READY
    THEN [s EXCEPT !.lc_idx_list = Tuple([e \in 1..Len(@) |-> <<@[e][1], @[e][2], 0>>], Len(@)),
                   !.h_ub = @ \/ Len(s.lc_pt_idxs) > Len(s.lc_idx_list),
                   !.lc_state = LC_IDLE]
    ELSE s

\* addKeyFrame (sequential mode): max_kf_idx++, ..., loopClosure()
E_AddKeyFrame ==
    /\ mpc = "e_idle"
    /\ ms.h_inits >= 1
    /\ ms.max_kf_idx < MaxKFEdges
    /\ \E kf_prev_idx \in {NULL} \cup 0..(ms.max_kf_idx - 1), isLC \in BOOLEAN :
          ms' = loopClosureComputationLists(
                    loopClosureLists([ms EXCEPT !.max_kf_idx = @ + 1], kf_prev_idx, isLC))
    /\ mpc' = IF ms'.h_ub THEN "e_ub" ELSE "e_idle"
    /\ UNCHANGED <<build, mtVars>>

NextEdges == E_Initialize \/ E_AddKeyFrame

SpecEdges == InitEdges /\ [][NextEdges]_vars

\* C27: after any sequence of initialize and addKeyFrame calls the loop-edge lists
\* lc_idx_list, lc_pose_list, lc_pt_idxs and lc_ls_idxs have equal length and entry k
\* of each belongs to the same loop edge; each accepted loop closure appends one
\* entry to each.
C27_LoopEdgeListsAligned ==
    /\ [](/\ Len(ms.lc_pose_list) = Len(ms.lc_idx_list)
          /\ Len(ms.lc_pt_idxs) = Len(ms.lc_idx_list)
          /\ Len(ms.lc_ls_idxs) = Len(ms.lc_idx_list)
          /\ \A k \in 1..Len(ms.lc_idx_list) :
                LET edge == <<ms.lc_idx_list[k][1], ms.lc_idx_list[k][2], ms.h_inits>> IN
                /\ ms.lc_pose_list[k] = edge
                /\ ms.lc_pt_idxs[k] = edge
                /\ ms.lc_ls_idxs[k] = edge)
    /\ [][\A f \in {"lc_idx_list", "lc_pose_list", "lc_pt_idxs", "lc_ls_idxs"} :
             Len(ms'[f]) > Len(ms[f]) =>
                 /\ Len(ms'[f]) = Len(ms[f]) + 1
                 /\ Len(ms'.lc_idx_list) = Len(ms.lc_idx_list) + 1]_vars

\* ------------------------------------------------------------------ further claims on the fusion
\* the correspondences loopClosureFuseLandmarks processes in store s: those of the
\* loop edges marked unoptimized
MarkedCorrespondences(s, k) ==
    UNION {SetOf(s[LcF(k)][e]) :
              e \in {x \in 1..Len(s[LcF(k)]) : x <= Len(s.lc_idx_list) /\ s.lc_idx_list[x][3] = 1}}

\* C28: when a recorded loop correspondence has the same landmark index on both
\* sides, loopClosureFuseLandmarks leaves that landmark resident with its
\* observation lists, its anchor entry and the covisibility counts unchanged (stated
\* for a call that has this one correspondence to process).
C28_SelfCorrespondenceIsNoMerge ==
    [][(ms'.h_fuse_calls = ms.h_fuse_calls + 1) =>
          \A k \in Kinds : \A c \in MarkedCorrespondences(ms, k) :
              (/\ c[1] = c[3] /\ c[1] # -1
               /\ ms[MapF(k)][c[1] + 1] # nullptr
               /\ Cardinality(MarkedCorrespondences(ms, Pt))
                    + Cardinality(MarkedCorrespondences(ms, Ls)) = 1) =>
                  /\ ~ms'.h_ub
                  /\ ms'[MapF(k)][c[1] + 1] = ms[MapF(k)][c[1] + 1]
                  /\ ms'[AnchorF(k)] = ms[AnchorF(k)]
                  /\ ms'.full_graph = ms.full_graph]_vars


\* how many times landmark index lm occurs in the anchor list of keyframe kf
RECURSIVE Occurrences(_, _)
Occurrences(list, lm) ==
    IF list = <<>> THEN 0
    ELSE (IF Head(list) = lm THEN 1 ELSE 0) + Occurrences(Tail(list), lm)

RECURSIVE AnchorCount(_, _, _)
AnchorCount(idx, lm, kf) ==
    IF kf > Len(idx) THEN 0
    ELSE Occurrences(idx[kf], lm) + AnchorCount(idx, lm, kf + 1)

\* C29: between operations every resident landmark's index appears exactly once in
\* the anchor index of its kind, over all keyframes: re-anchoring moves the entry
\* and never duplicates it
C29_AnchoredExactlyOnce ==
    mpc \in {"idle", "lc"} =>
        \A k \in Kinds : \A lm \in 0..(Len(ms[MapF(k)]) - 1) :
            ms[MapF(k)][lm + 1] # nullptr => AnchorCount(ms[AnchorF(k)], lm, 1) = 1



\* ------------------------------------------------------------------ keyframe poses
\* The two pose fields of the keyframes over addKeyFrame calls (sequential mode).
\* Poses are the rotations about one axis by multiples of a turn / NPose, a pose
\* matrix being kept as its number of steps 0..NPose-1; a tangent vector is an angle
\* in the same steps and ranges over two turns, so two tangent vectors denote each
\* pose. ms is [x_kf_w, T_kf_w, pluker, hasRefinement]: x_kf_w[kf + 1] and
\* T_kf_w[kf + 1] are the fields of keyframe kf, pluker is the USE_LINE_PLUKER build
\* flag and hasRefinement is SlamConfig::hasRefinement().
NPose == 3
MaxKFPose == 2

Poses == 0..(NPose - 1)
Tangents == 0..(2 * NPose - 1)

\* expmap_se3: the pose a tangent vector denotes
expmap_se3(x) == x % NPose

\* logmap_se3: the tangent vector of a pose, its angle within the first turn
logmap_se3(T) == T

\* the product of two pose matrices
PoseProduct(T0, T1) == (T0 + T1) % NPose

InitPose ==
    /\ OtherVarsAtRest
    /\ \E pl \in BOOLEAN, rf \in BOOLEAN :
          ms = [x_kf_w |-> <<logmap_se3(0)>>, T_kf_w |-> <<0>>,
                pluker |-> pl, hasRefinement |-> rf]
    /\ mpc = "p_idle"

\* addKeyFrame up to lookForCommonMatches: the keyframe arrives with its pose relative
\* to the previous keyframe; both fields are set from the product; the refinement
\* of lookForCommonMatches then writes T_kf_w alone, from kf0->T_kf_w * DT_ or from
\* kf0->T_kf_w * inverse(DT), which is the pose it had
P_AddKeyFrame ==
    /\ mpc = "p_idle"
    /\ Len(ms.T_kf_w) <= MaxKFPose
    /\ \E rel \in Poses, DT_ \in Poses, refined \in BOOLEAN :
          LET prev == ms.T_kf_w[Len(ms.T_kf_w)]
              T_curr_w == PoseProduct(prev, rel)
              x == logmap_se3(T_curr_w)
              T == expmap_se3(x)
              Tref == IF ~ms.hasRefinement THEN T
                      ELSE IF refined THEN expmap_se3(logmap_se3(PoseProduct(prev, DT_)))
                      ELSE expmap_se3(logmap_se3(T))
          IN ms' = [ms EXCEPT !.x_kf_w = Append(@, x), !.T_kf_w = Append(@, Tref)]
    /\ mpc' = "p_lba"
    /\ UNCHANGED <<build, mtVars>>

\* localBundleAdjustment: the custom optimizer starts from x_kf_w of the local
\* keyframes other than keyframe 0 and publishes T_kf_w = expmap_se3(X) unless a
\* keyframe is being inserted; the G2O optimizer starts from T_kf_w and publishes
\* T_kf_w of the keyframes it did not fix. Neither writes x_kf_w.
P_LocalBundleAdjustment ==
    /\ mpc = "p_lba"
    /\ \E kf_list \in SUBSET (1..(Len(ms.T_kf_w) - 1)), inserting \in BOOLEAN :
       \E X \in [kf_list -> IF ms.pluker THEN Poses ELSE Tangents] :
          LET Test(kf) == IF ms.pluker THEN X[kf] ELSE expmap_se3(X[kf])
          IN ms' = IF ~ms.pluker /\ inserting THEN ms
                   ELSE [ms EXCEPT !.T_kf_w =
                            Tuple([i \in 1..Len(@) |->
                                      IF (i - 1) \in kf_list THEN Test(i - 1) ELSE @[i]],
                                  Len(@))]
    /\ mpc' = "p_lc"
    /\ UNCHANGED <<build, mtVars>>

\* loopClosure: with no loop to close nothing is written; otherwise the pose graph
\* optimization writes T_kf_w and x_kf_w = logmap_se3(T_kf_w) of every keyframe from
\* kf_prev_idx to kf_curr_idx
P_LoopClosure ==
    /\ mpc = "p_lc"
    /\ \E kf_prev_idx \in {NULL} \cup 0..(Len(ms.T_kf_w) - 2) :
          IF kf_prev_idx = NULL THEN ms' = ms
          ELSE \E Tkfw \in [kf_prev_idx..(Len(ms.T_kf_w) - 1) -> Poses] :
                  ms' = [ms EXCEPT
                            !.T_kf_w = Tuple([i \in 1..Len(@) |->
                                                 IF i - 1 >= kf_prev_idx THEN Tkfw[i - 1] ELSE @[i]],
                                             Len(@)),
                            !.x_kf_w = Tuple([i \in 1..Len(@) |->
                                                 IF i - 1 >= kf_prev_idx
                                                 THEN logmap_se3(Tkfw[i - 1]) ELSE @[i]],
                                             Len(@))]
    /\ mpc' = "p_idle"
    /\ UNCHANGED <<build, mtVars>>

NextPose == P_AddKeyFrame \/ P_LocalBundleAdjustment \/ P_LoopClosure

SpecPose == InitPose /\ [][NextPose]_vars

\* C30: after each completed addKeyFrame the tangent vector x_kf_w and the pose
\* matrix T_kf_w of every keyframe denote the same pose
C30_TangentAndMatrixAgree ==
    mpc = "p_idle" =>
        \A i \in 1..Len(ms.T_kf_w) : expmap_se3(ms.x_kf_w[i]) = ms.T_kf_w[i]



\* ------------------------------------------------------------------ further claims on the association
\* C31: between operations no landmark's kf_obs_list names a keyframe twice, and a
\* keyframe named in the kf_obs_list of a landmark has a feature whose idx is that
\* landmark
C31_ObserversDistinctAndReferencing ==
    mpc \in {"idle", "lc"} =>
        \A k \in Kinds : \A lm \in 0..(Len(ms[MapF(k)]) - 1) :
            LET p == ms[MapF(k)][lm + 1] IN
            p # nullptr =>
                /\ \A a, b \in 1..Len(p.kf_obs_list) :
                      a # b => p.kf_obs_list[a] # p.kf_obs_list[b]
                /\ \A a \in 1..Len(p.kf_obs_list) :
                      \E f \in 1..NFeat(k) : ms[FeatF(k)][p.kf_obs_list[a] + 1][f] = lm



\* ------------------------------------------------------------------ the local map
\* formLocalMap over keyframes with one line feature each. ms is [multithread,
\* full_graph, stereo_pt, stereo_ls, map_points, map_lines, local, h_kf]:
\* local[i + 1] is the local flag of keyframe i, h_kf the keyframe the last
\* formLocalMap was called for. In pipeline mode addKeyFrame expands the graphs and
\* returns, and the worker calls formLocalMap(curr_kf_mt) for the keyframes in
\* enqueue order; in single-threaded mode addKeyFrame calls formLocalMap() itself.
MaxKFLocal == 3

InitLocal ==
    /\ OtherVarsAtRest
    /\ \E mt \in BOOLEAN :
          ms = [multithread |-> mt, full_graph |-> << <<0>> >>,
                stereo_pt |-> <<FreshFeatures(Pt)>>, stereo_ls |-> <<FreshFeatures(Ls)>>,
                map_points |-> <<>>, map_lines |-> <<>>,
                local |-> <<TRUE>>, h_kf |-> 0]
    /\ mpc = "l_formed"

\* addKeyFrame up to formLocalMap: expandGraphs, curr_kf->local = true, and what the
\* association leaves behind: the line feature of the keyframe names no landmark, a
\* new landmark shared with the previous keyframe or a landmark of the map, and row
\* and column of the keyframe in full_graph hold the counts
L_AddKeyFrame ==
    /\ mpc \in {"l_idle", "l_formed"}
    /\ Len(ms.local) <= MaxKFLocal
    /\ ms.multithread \/ ms.h_kf = Len(ms.local) - 1
    /\ LET kf2 == Len(ms.local) IN
       \E idx \in {-1} \cup 0..Len(ms.map_lines) :
       \E row \in [0..(kf2 - 1) -> {0, minLMCovGraph}] :
          LET g == expandGraphs(ms.full_graph)
              graph == Tuple([i \in 1..(kf2 + 1) |->
                                Tuple([j \in 1..(kf2 + 1) |->
                                          IF i = kf2 + 1 /\ j <= kf2 THEN row[j - 1]
                                          ELSE IF j = kf2 + 1 /\ i <= kf2 THEN row[i - 1]
                                          ELSE g[i][j]], kf2 + 1)], kf2 + 1)
              lines == IF idx = -1 THEN ms.map_lines
                       ELSE IF idx = Len(ms.map_lines)
                       THEN Append(ms.map_lines, AddObservation(NewLandmark(kf2 - 1), kf2))
                       ELSE [ms.map_lines EXCEPT ![idx + 1] = AddObservation(@, kf2)]
          IN ms' = [ms EXCEPT !.full_graph = graph,
                              !.stereo_pt = Append(@, FreshFeatures(Pt)),
                              !.stereo_ls = Append(@, <<idx>>),
                              !.map_lines = lines,
                              !.local = Append(@, TRUE)]
    /\ mpc' = "l_idle"
    /\ UNCHANGED <<build, mtVars>>

\* formLocalMap() / formLocalMap(kf) for the next keyframe in line: every flag is
\* cleared, then set for kf, for the keyframes the loop over full_graph selects and
\* for the landmarks their features name
L_FormLocalMap ==
    /\ ms.h_kf < Len(ms.local) - 1
    /\ LET kf == ms.h_kf + 1 IN
       ms' = [formLocalMap(ms, kf) EXCEPT
                 !.local = Tuple([i \in 1..Len(@) |-> (i - 1) \in LocalKFs(ms, kf)], Len(@)),
                 !.h_kf = kf]
    /\ mpc' = "l_formed"
    /\ UNCHANGED <<build, mtVars>>

NextLocal == L_AddKeyFrame \/ L_FormLocalMap

SpecLocal == InitLocal /\ [][NextLocal]_vars

\* C32: after formLocalMap for keyframe n, a keyframe i < n is flagged local exactly
\* when full_graph[n][i] >= minLMCovGraph or n - i <= minKFLocalMap, keyframe n is
\* flagged local, every keyframe after n is not, and a resident landmark is flagged
\* local exactly when a feature of a local keyframe names it
C32_LocalMapOfProcessedKeyframe ==
    (mpc = "l_formed" /\ ms.h_kf > 0) =>
        LET n == ms.h_kf IN
        /\ \A i \in 0..(Len(ms.local) - 1) :
              ms.local[i + 1] <=>
                  \/ i = n
                  \/ i < n /\ (\/ ms.full_graph[n + 1][i + 1] >= minLMCovGraph
                               \/ n - i <= minKFLocalMap)
        /\ \A k \in Kinds : \A lm \in 0..(Len(ms[MapF(k)]) - 1) :
              ms[MapF(k)][lm + 1] # nullptr =>
                  (ms[MapF(k)][lm + 1].local <=>
                      \E i \in 0..(Len(ms.local) - 1) : \E f \in 1..NFeat(k) :
                          ms.local[i + 1] /\ ms[FeatF(k)][i + 1][f] = lm)


\* ------------------------------------------------------------------ further claims on the culling
\* Runs of addKeyFrame in which line landmarks are followed from keyframe to
\* keyframe, long enough for the culling to meet landmarks that are old and local.
Op_TrackKeyFrame ==
    /\ mpc = "idle"
    /\ ms.max_kf_idx < MaxKFQuiet
    /\ \E mls \in FreshMatchings(NLs, NLs), moved \in BOOLEAN :
          /\ moved => ms.h_outliers < MaxOutliers
          /\ ms' = [TrackKeyFrame(ms, build, mls, moved) EXCEPT
                       !.h_outliers = IF moved THEN @ + 1 ELSE @]
    /\ mpc' = IF ms'.h_ub THEN "ub" ELSE "idle"
    /\ UNCHANGED <<build, mtVars>>

NextTrack == Op_Initialize \/ Op_TrackKeyFrame

SpecTrack == InitMap /\ [][NextTrack]_vars

\* C33: the culling never deletes a landmark flagged local nor an inlier landmark
\* observed by at least minLMObs keyframes, and it deletes by setting the slot to
\* null: the landmark arrays never get shorter and no landmark moves into a slot
\* that was null
C33_CullingSparesLocalAndKeepsSlots ==
    /\ [](ms.h_cull_ok)
    /\ [][mpc # "start" =>
            \A k \in Kinds :
                /\ Len(ms'[MapF(k)]) >= Len(ms[MapF(k)])
                /\ \A lm \in 1..Len(ms[MapF(k)]) :
                      ms[MapF(k)][lm] = nullptr => ms'[MapF(k)][lm] = nullptr]_vars

\* the culling has just passed over a landmark that is older than CullAge keyframes
\* and not an inlier, because it is flagged local
C33_Witness ==
    /\ mpc = "idle"
    /\ \E lm \in 1..Len(ms.map_lines) :
          LET p == ms.map_lines[lm] IN
          /\ p # nullptr /\ p.local /\ ~p.inlier
          /\ ms.max_kf_idx - p.kf_obs_list[1] > CullAge

\* the culling has deleted a landmark and the landmark next to it is in its slot
C33_WitnessDeleted ==
    /\ mpc = "idle"
    /\ \E a, b \in 1..Len(ms.map_lines) :
          a < b /\ ms.map_lines[a] = nullptr /\ ms.map_lines[b] # nullptr


\* ------------------------------------------------------------------ the parameter vector
\* The entries of X that levMarquardtOptimizationLBA reads and writes for one
\* entity. ms is [Nkf, Npt, Nls, h_access]: the numbers of local keyframes other than
\* keyframe 0, of local points and of local lines (X has 6 * Nkf + 3 * Npt + 6 * Nls
\* entries, counted from 0), and the last access as [op, k, lm_idx_loc, kf_idx_loc,
\* X]: the operation ("none" before the first), the kind of landmark ("kf" for an
\* access to a keyframe alone), the local index of the landmark (-1 for every
\* landmark of the kind, or none), the local index of the keyframe (-1 for a
\* keyframe that is not optimized, or none) and the set of entries of X (or of g
\* for "gradient") that it touched.
MaxNkf == 2
MaxNlm == 2

\* v.block(i, 0, n, 1)
Block(i, n) == i..(i + n - 1)

InitBlocks ==
    /\ OtherVarsAtRest
    /\ \E Nkf \in 0..MaxNkf, Npt \in 0..MaxNlm, Nls \in 0..MaxNlm :
          ms = [Nkf |-> Nkf, Npt |-> Npt, Nls |-> Nls,
                h_access |-> [op |-> "none", k |-> "kf", lm_idx_loc |-> -1,
                              kf_idx_loc |-> -1, X |-> {}]]
    /\ mpc = "b_idle"

\* the loop over pt_obs_list / ls_obs_list inside the iteration, "grab 3D LM" and
\* "grab 6DoF KF": a point reads X.block(6*Nkf+3*lm_idx_loc, 0, 3, 1) and, for an
\* optimized keyframe, X.block(6*kf_idx_loc, 0, 6, 1); a line reads Pwj and Qwj both
\* from X.block(6*Nkf+3*Npt+3*lm_idx_loc, 0, 3, 1) and takes the pose from
\* map_keyframes[kf_idx_map]->T_kf_w
ResidualReads(s, k, lm_idx_loc, kf_idx_loc) ==
    IF k = Pt
    THEN Block(6 * s.Nkf + 3 * lm_idx_loc, 3)
         \cup (IF kf_idx_loc # -1 THEN Block(6 * kf_idx_loc, 6) ELSE {})
    ELSE Block(6 * s.Nkf + 3 * s.Npt + 3 * lm_idx_loc, 3)
         \cup Block(6 * s.Nkf + 3 * s.Npt + 3 * lm_idx_loc, 3)

\* "update hessian, gradient, and error": idx = 6 * kf_idx_loc and
\* jdx = 6*Nkf + 3*lm_idx_loc resp. 6*Nkf + 3*Npt + 6*lm_idx_loc
GradientWrites(s, k, lm_idx_loc, kf_idx_loc) ==
    (IF k = Pt THEN Block(6 * s.Nkf + 3 * lm_idx_loc, 3)
     ELSE Block(6 * s.Nkf + 3 * s.Npt + 6 * lm_idx_loc, 6))
    \cup (IF kf_idx_loc # -1 THEN Block(6 * kf_idx_loc, 6) ELSE {})

\* the residual of one observation of local landmark lm_idx_loc by keyframe kf_idx_loc
B_Residual ==
    /\ mpc = "b_idle"
    /\ \E k \in Kinds, kf_idx_loc \in {-1} \cup 0..(ms.Nkf - 1), grad \in BOOLEAN :
       \E lm_idx_loc \in 0..((IF k = Pt THEN ms.Npt ELSE ms.Nls) - 1) :
          ms' = [ms EXCEPT !.h_access =
                    [op |-> IF grad THEN "gradient" ELSE "residual",
                     k |-> k, lm_idx_loc |-> lm_idx_loc, kf_idx_loc |-> kf_idx_loc,
                     X |-> IF grad THEN GradientWrites(ms, k, lm_idx_loc, kf_idx_loc)
                           ELSE ResidualReads(ms, k, lm_idx_loc, kf_idx_loc)]]
    /\ mpc' = "b_idle"
    /\ UNCHANGED <<build, mtVars>>

\* the step update of keyframe i (X.block(6*i, 0, 6, 1)), of all points (entries
\* 6*Nkf up to 6*Nkf+3*Npt) or of all lines (entries 6*Nkf+3*Npt up to N)
B_StepUpdate ==
    /\ mpc = "b_idle"
    /\ \/ \E i \in 0..(ms.Nkf - 1) :
             ms' = [ms EXCEPT !.h_access =
                       [op |-> "update", k |-> "kf", lm_idx_loc |-> -1, kf_idx_loc |-> i,
                        X |-> Block(6 * i, 6)]]
       \/ \E k \in Kinds :
             ms' = [ms EXCEPT !.h_access =
                       [op |-> "update", k |-> k, lm_idx_loc |-> -1, kf_idx_loc |-> -1,
                        X |-> IF k = Pt
                              THEN (6 * ms.Nkf)..(6 * ms.Nkf + 3 * ms.Npt - 1)
                              ELSE (6 * ms.Nkf + 3 * ms.Npt)
                                       ..(6 * ms.Nkf + 3 * ms.Npt + 6 * ms.Nls - 1)]]
    /\ mpc' = "b_idle"
    /\ UNCHANGED <<build, mtVars>>

\* "Update KFs and LMs": keyframe i from X.block(6*i, 0, 6, 1), point i from
\* X(6*Nkf+3*i) .. X(6*Nkf+3*i+2), line i from X(6*Nkf+3*Npt+6*i) .. X(6*Nkf+3*Npt+6*i+5)
B_WriteBack ==
    /\ mpc = "b_idle"
    /\ \/ \E i \in 0..(ms.Nkf - 1) :
             ms' = [ms EXCEPT !.h_access =
                       [op |-> "publish", k |-> "kf", lm_idx_loc |-> -1, kf_idx_loc |-> i,
                        X |-> Block(6 * i, 6)]]
       \/ \E k \in Kinds : \E i \in 0..((IF k = Pt THEN ms.Npt ELSE ms.Nls) - 1) :
             ms' = [ms EXCEPT !.h_access =
                       [op |-> "publish", k |-> k, lm_idx_loc |-> i, kf_idx_loc |-> -1,
                        X |-> IF k = Pt
                              THEN {6 * ms.Nkf + 3 * i + c : c \in 0..2}
                              ELSE {6 * ms.Nkf + 3 * ms.Npt + 6 * i + c : c \in 0..5}]]
    /\ mpc' = "b_idle"
    /\ UNCHANGED <<build, mtVars>>

NextBlocks == B_Residual \/ B_StepUpdate \/ B_WriteBack

SpecBlocks == InitBlocks /\ [][NextBlocks]_vars

\* the block of an entity in the layout: 6 entries per keyframe at 6k, then 3 per
\* point at 6*Nkf + 3p, then 6 per line at 6*Nkf + 3*Npt + 6l
LayoutPose(s, kf) == {x \in 0..(6 * s.Nkf - 1) : x \div 6 = kf}

LayoutLandmarks(s, k, lms) ==
    IF k = Pt
    THEN {6 * s.Nkf + x : x \in {y \in 0..(3 * s.Npt - 1) : (y \div 3) \in lms}}
    ELSE {6 * s.Nkf + 3 * s.Npt + x : x \in {y \in 0..(6 * s.Nls - 1) : (y \div 6) \in lms}}

\* C34: every residual evaluation, gradient accumulation, step update and
\* write-back in levMarquardtOptimizationLBA touches exactly the blocks of the
\* entities it is for: the block of the landmark (all 6 entries of a line, both
\* endpoints) and the block of the observing keyframe if it is optimized
C34_AccessesOwnBlocks ==
    ms.h_access.op # "none" =>
        LET a == ms.h_access
            lms == IF a.lm_idx_loc = -1
                   THEN 0..((IF a.k = Pt THEN ms.Npt ELSE ms.Nls) - 1)
                   ELSE {a.lm_idx_loc}
        IN a.X = LayoutPose(ms, a.kf_idx_loc)
                 \cup (IF a.k = "kf" THEN {} ELSE LayoutLandmarks(ms, a.k, lms))

\* ------------------------------------------------------------------ publication of the optimized map
\* The end of a pass of the Local Optimizer: levMarquardtOptimizationLBA (and
\* levMarquardtOptimizationLBAForPluker) tests vo_status, takes m_insert_kf, writes
\* keyframes, points and lines, prunes observations, and releases m_insert_kf;
\* localBundleAdjustmentForPlukerWithG2O, which the worker of a pluker build calls,
\* prunes observations and writes keyframes, points and lines. vo_status is assigned
\* nowhere in the file: its value is whatever the caller left in it. ms holds
\* vo_status, the owner of m_insert_kf, which optimizer the build runs, the number
\* of passes begun, the estimate X of the pass, the store as the estimate last
\* written to [kfs, pts, lss] and the number of prunings obs, the store at the start
\* of the pass, the value returned, and whether each write so far was made with
\* m_insert_kf held while vo_status was not VO_INSERTING_KF.
VO_INSERTING_KF == "VO_INSERTING_KF"
VO_PROCESSING == "VO_PROCESSING"
MaxPass == 2

InitPublish ==
    /\ OtherVarsAtRest
    /\ \E st \in {VO_INSERTING_KF, VO_PROCESSING}, g2o \in BOOLEAN :
          ms = [vo_status |-> st, m_insert_kf |-> "free", g2o |-> g2o, passes |-> 0,
                X |-> 0, store |-> [kfs |-> 0, pts |-> 0, lss |-> 0, obs |-> 0],
                h_store0 |-> [kfs |-> 0, pts |-> 0, lss |-> 0, obs |-> 0],
                h_ret |-> 0, h_pub_ok |-> TRUE]
    /\ mpc = "p_idle"

\* one write of the publication, with what held when it was made
PublishWrite(s, field, x) ==
    [s EXCEPT !.store[field] = x,
              !.h_pub_ok = @ /\ s.m_insert_kf = "lba" /\ s.vo_status # VO_INSERTING_KF]

\* a pass begins: the optimization runs to its end on a copy of the parameters
P_Optimize ==
    /\ mpc = "p_idle"
    /\ ms.passes < MaxPass
    /\ \E x \in 1..MaxX :
          ms' = [ms EXCEPT !.passes = @ + 1, !.X = x, !.h_store0 = ms.store, !.h_ret = 0]
    /\ mpc' = IF ms.g2o THEN "g_prune" ELSE "p_test"
    /\ UNCHANGED <<build, mtVars>>

\* if( vo_status != VO_INSERTING_KF ) ... else return -1
P_Test ==
    /\ mpc = "p_test"
    /\ IF ms.vo_status # VO_INSERTING_KF
       THEN /\ mpc' = "p_lock"
            /\ ms' = ms
       ELSE /\ mpc' = "p_idle"
            /\ ms' = [ms EXCEPT !.h_ret = -1]
    /\ UNCHANGED <<build, mtVars>>

\* m_insert_kf.lock()
P_Lock ==
    /\ mpc = "p_lock"
    /\ ms.m_insert_kf = "free"
    /\ ms' = [ms EXCEPT !.m_insert_kf = "lba"]
    /\ mpc' = "p_kfs"
    /\ UNCHANGED <<build, mtVars>>

\* "update KFs", "update point LMs", "update line LMs", then the removal of the
\* observations out of tolerance
P_Publish ==
    /\ \/ /\ mpc = "p_kfs"
          /\ ms' = PublishWrite(ms, "kfs", ms.X)
          /\ mpc' = "p_pts"
       \/ /\ mpc = "p_pts"
          /\ ms' = PublishWrite(ms, "pts", ms.X)
          /\ mpc' = "p_lss"
       \/ /\ mpc = "p_lss"
          /\ ms' = PublishWrite(ms, "lss", ms.X)
          /\ mpc' = "p_prune"
       \/ /\ mpc = "p_prune"
          /\ ms' = PublishWrite(ms, "obs", ms.store.obs + 1)
          /\ mpc' = "p_unlock"
    /\ UNCHANGED <<build, mtVars>>

\* m_insert_kf.unlock(); return 0
P_Unlock ==
    /\ mpc = "p_unlock"
    /\ ms' = [ms EXCEPT !.m_insert_kf = "free", !.h_ret = 0]
    /\ mpc' = "p_idle"
    /\ UNCHANGED <<build, mtVars>>

\* localBundleAdjustmentForPlukerWithG2O after optimizer.optimize(): the removal of
\* the observations out of tolerance, then "recover Keyframes", "recover MapPoints",
\* "recover MapLines"
G2O_Publish ==
    /\ \/ /\ mpc = "g_prune"
          /\ ms' = PublishWrite(ms, "obs", ms.store.obs + 1)
          /\ mpc' = "g_kfs"
       \/ /\ mpc = "g_kfs"
          /\ ms' = PublishWrite(ms, "kfs", ms.X)
          /\ mpc' = "g_pts"
       \/ /\ mpc = "g_pts"
          /\ ms' = PublishWrite(ms, "pts", ms.X)
          /\ mpc' = "g_lss"
       \/ /\ mpc = "g_lss"
          /\ ms' = PublishWrite(ms, "lss", ms.X)
          /\ mpc' = "p_idle"
    /\ UNCHANGED <<build, mtVars>>

NextPublish == P_Optimize \/ P_Test \/ P_Lock \/ P_Publish \/ P_Unlock \/ G2O_Publish

SpecPublish == InitPublish /\ [][NextPublish]_vars

\* C35: the Local Optimizer writes its results to the Map Store only while it holds
\* m_insert_kf and only when vo_status is not VO_INSERTING_KF, and a pass that
\* returns -1 has left the Map Store as it was when the pass began.
C35_PublishesOnlyUnderLock ==
    /\ ms.h_pub_ok
    /\ (mpc = "p_idle" /\ ms.h_ret = -1) => ms.store = ms.h_store0

\* ------------------------------------------------------------------ the gate of the line association
\* C36: a candidate line pair that the geometric-consistency gate of matchKF2KFLines
\* rejects is fully undone: the landmarks, the anchor entries, the covisibility
\* counts and the landmark counter are as before the candidate, the feature of the
\* current keyframe has idx -1 again, and so has the feature of the previous
\* keyframe when the candidate was for a new landmark.
C36_GateRejectionUndone == ms.h_gate_ok

C36_Witness ==
    /\ mpc = "local_map"
    /\ build.pluker
    /\ "old" \in ms.h_gate
    /\ \E i \in 1..NLs : ms.stereo_ls[ms.max_kf_idx][i] # -1
    /\ \A i \in 1..NLs : ms.stereo_ls[ms.max_kf_idx + 1][i] = -1

C36_WitnessNew ==
    /\ mpc = "local_map"
    /\ build.pluker
    /\ "new" \in ms.h_gate
    /\ ms.max_ls_idx = 0

\* ------------------------------------------------------------------ the association passes and their early returns
\* The four passes of lookForCommonMatches with the tests at their entry, for
\* keyframes that may come without points or without lines and a configuration that
\* may disable a feature type. ms holds the store st, SlamConfig::hasPoints() and
\* hasLines(), the values returned by the passes of the last lookForCommonMatches
\* (NULL for a pass that was not called), the passes of it that ran with their
\* feature type disabled, an empty frame, no local landmark in view or no unmatched
\* feature, and whether each such pass so far returned 0 and left the store as it was.
MaxKFAssoc == 2

Features(n) == Tuple([i \in 1..n |-> -1], n)

NMatches(m) == Cardinality({i \in 1..Len(m) : m[i] # 0})

\* the pass without the test of SlamConfig::hasPoints() / hasLines()
KF2KFPassIgnoringConfig(s, has, k, kf1, kf2, m) ==
    IF Len(s[FeatF(k)][kf2 + 1]) = 0 \/ Len(s[FeatF(k)][kf1 + 1]) = 0
    THEN [s |-> s, ret |-> 0]
    ELSE [s |-> MatchKF2KF(s, k, kf1, kf2, m, {}, 1), ret |-> NMatches(m)]

\* matchKF2KFPoints / matchKF2KFLines: if (!SlamConfig::hasPoints() ||
\* curr_frame->stereo_pt.empty() || prev_frame->stereo_pt.empty()) return 0; then the
\* matcher and the loop over its matches; return matches
KF2KFPass(s, has, k, kf1, kf2, m) ==
    IF ~has \/ Len(s[FeatF(k)][kf2 + 1]) = 0 \/ Len(s[FeatF(k)][kf1 + 1]) = 0
    THEN [s |-> s, ret |-> 0]
    ELSE [s |-> MatchKF2KF(s, k, kf1, kf2, m, {}, 1), ret |-> NMatches(m)]

\* matchMap2KFPoints / matchMap2KFLines: if (!SlamConfig::hasPoints() ||
\* curr_frame->stereo_pt.empty()) return 0; the local landmarks projected inside the
\* image (visible) and the unmatched features are collected;
\* if (map_local_points.empty() || unmatched_points.empty()) return 0; then the
\* matcher and the loop over its matches (chosen); return matches
Map2KFPass(s, has, k, kf2, visible, chosen) ==
    IF ~has \/ Len(s[FeatF(k)][kf2 + 1]) = 0
    THEN [s |-> s, ret |-> 0]
    ELSE IF visible = {} \/ Unmatched(s, k, kf2) = {}
    THEN [s |-> s, ret |-> 0]
    ELSE [s |-> MatchMap2KF(s, k, kf2, chosen), ret |-> Cardinality(chosen)]

\* the local landmarks in view and those of them the matcher accepts
Map2KFInputs(s, k, kf2) ==
    {vc \in (SUBSET MapLocal(s, k, kf2)) \X (SUBSET MapLocal(s, k, kf2)) :
        /\ vc[2] \subseteq vc[1]
        /\ Cardinality(vc[2]) <= Cardinality(Unmatched(s, k, kf2))}

InitAssoc ==
    /\ OtherVarsAtRest
    /\ \E hp \in BOOLEAN, hl \in BOOLEAN :
          ms = [st |-> EmptyStore, hasPoints |-> hp, hasLines |-> hl,
                h_ret |-> <<NULL, NULL, NULL, NULL>>, h_early |-> {}, h_assoc_ok |-> TRUE]
    /\ mpc = "a_start"

\* initialize(kf0)
A_Initialize ==
    /\ mpc = "a_start"
    /\ \E npt \in {0, NPt}, nls \in {0, NLs} :
          ms' = [ms EXCEPT !.st = [initialize(ms.st) EXCEPT !.stereo_pt = <<Features(npt)>>,
                                                          !.stereo_ls = <<Features(nls)>>]]
    /\ mpc' = "a_idle"
    /\ UNCHANGED <<build, mtVars>>

\* the rest of addKeyFrame in sequential mode for a pass that finds nothing out of
\* tolerance and a keyframe without loop candidate
AfterCommonMatches(s) ==
    LET s3 == formLocalMap(PushKeyFrame(s), s.max_kf_idx)
        s4 == removeBadMapLandmarks(localBundleAdjustment(s3, [pt |-> {}, ls |-> {}]))
    IN loopClosure(s4, NULL, FALSE, <<>>, <<>>)

\* addKeyFrame(curr_kf) in sequential mode: lookForCommonMatches calls
\* matchKF2KFPoints, matchKF2KFLines, then matchMap2KFPoints if hasPoints() and
\* matchMap2KFLines if hasLines()
A_AddKeyFrame ==
    /\ mpc = "a_idle"
    /\ ms.st.max_kf_idx < MaxKFAssoc
    /\ \E npt \in {0, NPt}, nls \in {0, NLs} :
          LET s0 == [NewKeyFrame(ms.st, FALSE) EXCEPT
                        !.stereo_pt[Len(ms.st.stereo_pt) + 1] = Features(npt),
                        !.stereo_ls[Len(ms.st.stereo_ls) + 1] = Features(nls)]
              kf2 == s0.max_kf_idx
              Empty(s, k, kf) == Len(s[FeatF(k)][kf + 1]) = 0
          IN \E mpt \in Matchings(Len(s0.stereo_pt[kf2]), npt) :
             \E mls \in Matchings(Len(s0.stereo_ls[kf2]), nls) :
                LET r1 == KF2KFPass(s0, ms.hasPoints, Pt, kf2 - 1, kf2, mpt)
                    r2 == KF2KFPass(r1.s, ms.hasLines, Ls, kf2 - 1, kf2, mls)
                IN \E ipt \in Map2KFInputs(r2.s, Pt, kf2) :
                      LET r3 == IF ms.hasPoints
                                THEN Map2KFPass(r2.s, ms.hasPoints, Pt, kf2, ipt[1], ipt[2])
                                ELSE [s |-> r2.s, ret |-> NULL]
                      IN \E ils \in Map2KFInputs(r3.s, Ls, kf2) :
                            LET r4 == IF ms.hasLines
                                      THEN Map2KFPass(r3.s, ms.hasLines, Ls, kf2, ils[1], ils[2])
                                      ELSE [s |-> r3.s, ret |-> NULL]
                                early ==
                                    {<<"matchKF2KFPoints", s0, r1>> :
                                        x \in (IF \/ ~ms.hasPoints
                                                  \/ Empty(s0, Pt, kf2)
                                                  \/ Empty(s0, Pt, kf2 - 1)
                                               THEN {1} ELSE {})}
                                    \cup {<<"matchKF2KFLines", r1.s, r2>> :
                                        x \in (IF \/ ~ms.hasLines
                                                  \/ Empty(r1.s, Ls, kf2)
                                                  \/ Empty(r1.s, Ls, kf2 - 1)
                                               THEN {1} ELSE {})}
                                    \cup {<<"matchMap2KFPoints", r2.s, r3>> :
                                        x \in (IF /\ ms.hasPoints
                                                  /\ \/ Empty(r2.s, Pt, kf2)
                                                     \/ ipt[1] = {}
                                                     \/ Unmatched(r2.s, Pt, kf2) = {}
                                               THEN {1} ELSE {})}
                                    \cup {<<"matchMap2KFLines", r3.s, r4>> :
                                        x \in (IF /\ ms.hasLines
                                                  /\ \/ Empty(r3.s, Ls, kf2)
                                                     \/ ils[1] = {}
                                                     \/ Unmatched(r3.s, Ls, kf2) = {}
                                               THEN {1} ELSE {})}
                            IN ms' = [ms EXCEPT
                                        !.st = AfterCommonMatches(r4.s),
                                        !.h_ret = <<r1.ret, r2.ret, r3.ret, r4.ret>>,
                                        !.h_early = {e[1] : e \in early},
                                        !.h_assoc_ok =
                                            /\ @
                                            /\ \A e \in early : e[3].s = e[2] /\ e[3].ret = 0]
    /\ mpc' = "a_idle"
    /\ UNCHANGED <<build, mtVars>>

NextAssoc == A_Initialize \/ A_AddKeyFrame

SpecAssoc == InitAssoc /\ [][NextAssoc]_vars

\* C37: an association pass that runs with its feature type disabled, with a frame
\* that has no feature of the type, with no local landmark in view or with no
\* unmatched feature returns 0 and leaves the landmarks, the anchor indices, the
\* feature indices and the covisibility matrix as they were.
C37_QuietPassReturnsZero == ms.h_assoc_ok

C37_Witness ==
    /\ mpc = "a_idle"
    /\ ~ms.hasPoints
    /\ ms.hasLines
    /\ ms.st.max_kf_idx = 2
    /\ "matchKF2KFPoints" \in ms.h_early
    /\ "matchMap2KFLines" \in ms.h_early
    /\ Len(ms.st.stereo_pt[2]) > 0
    /\ Len(ms.st.stereo_pt[3]) > 0
    /\ ms.st.max_ls_idx > 0
    /\ ms.h_ret[1] = 0
    /\ ms.h_ret[4] = 0

\* ------------------------------------------------------------------ the error normalizations
\* The normalizations of the summed error in levMarquardtOptimizationLBA ("lba"),
\* levMarquardtOptimizationLBAForPluker ("lba_pluker") and
\* computeRelativePoseRobustGN ("pose"). ms holds the solver, the numbers of point
\* and line observations handed to it, the numbers Npt and Nls of local landmarks
\* (pt_obs_list.back()(1) + 1), the counters Npt_obs and Nls_obs, the numbers of
\* correspondences flagged inlier, the iteration count, the last divisor (NULL
\* before the first normalization) and whether every divisor so far was positive.
MaxObs == 2

Solvers == {"lba", "lba_pluker", "pose"}

InitNorm ==
    /\ OtherVarsAtRest
    /\ \E sv \in Solvers, n_pt \in 0..MaxObs, n_ls \in 0..MaxObs :
       \E Npt \in (IF n_pt = 0 \/ sv = "pose" THEN {0} ELSE 1..n_pt) :
       \E Nls \in (IF n_ls = 0 \/ sv = "pose" THEN {0} ELSE 1..n_ls) :
          /\ n_pt + n_ls # 0
          /\ ms = [solver |-> sv, n_pt |-> n_pt, n_ls |-> n_ls, Npt |-> Npt, Nls |-> Nls,
                   Npt_obs |-> 0, Nls_obs |-> 0, N_p |-> n_pt, N_l |-> n_ls,
                   iters |-> 0, h_divisor |-> NULL, h_div_ok |-> TRUE]
    /\ mpc = "n_start"

\* err /= d (e /= d)
Normalize(s, d) == [s EXCEPT !.h_divisor = d, !.h_div_ok = @ /\ d > 0]

\* the evaluation before the loop: int Npt = 0, Npt_obs = 0; ... int Nls = 0,
\* Nls_obs = 0; ... err /= (Npt_obs+Nls_obs); the loops over the observations
\* do not count into Npt_obs and Nls_obs
N_InitialEvaluation ==
    /\ mpc = "n_start"
    /\ ms.solver \in {"lba", "lba_pluker"}
    /\ ms' = [Normalize(ms, ms.Npt_obs + ms.Nls_obs) EXCEPT !.iters = 1]
    /\ mpc' = "n_loop"
    /\ UNCHANGED <<build, mtVars>>

\* for( iters = 1; iters < max_iters; iters++): err /= (Npt+Nls) in
\* levMarquardtOptimizationLBA, err /= (Npt_obs+Nls_obs) in the Pluecker variant
N_Iteration ==
    /\ mpc = "n_loop"
    /\ ms.iters < max_iters
    /\ ms' = [Normalize(ms, IF ms.solver = "lba" THEN ms.Npt + ms.Nls
                            ELSE ms.Npt_obs + ms.Nls_obs)
                 EXCEPT !.iters = @ + 1]
    /\ mpc' = "n_loop"
    /\ UNCHANGED <<build, mtVars>>

\* computeRelativePoseRobustGN, "GN iterations": N_p and N_l count the
\* correspondences flagged inlier; e /= (N_l+N_p)
N_PoseIteration ==
    /\ mpc \in {"n_start", "n_gn"}
    /\ ms.solver = "pose"
    /\ ms.iters < max_iters
    /\ ms' = [Normalize(ms, ms.N_l + ms.N_p) EXCEPT !.iters = @ + 1]
    /\ mpc' = "n_gn"
    /\ UNCHANGED <<build, mtVars>>

\* "Remove outliers": a correspondence with err_i.norm() > sqrt(7.815) is flagged
\* non-inlier
N_RemoveOutliers ==
    /\ mpc = "n_gn"
    /\ \E N_p \in 0..ms.N_p, N_l \in 0..ms.N_l :
          ms' = [ms EXCEPT !.N_p = N_p, !.N_l = N_l, !.iters = 0]
    /\ mpc' = "n_refine"
    /\ UNCHANGED <<build, mtVars>>

\* "GN refinement": e /= (N_l+N_p) over the correspondences still flagged inlier
N_PoseRefinement ==
    /\ mpc = "n_refine"
    /\ ms.iters < max_iters
    /\ ms' = [Normalize(ms, ms.N_l + ms.N_p) EXCEPT !.iters = @ + 1]
    /\ mpc' = "n_refine"
    /\ UNCHANGED <<build, mtVars>>

NextNorm ==
    \/ N_InitialEvaluation
    \/ N_Iteration
    \/ N_PoseIteration
    \/ N_RemoveOutliers
    \/ N_PoseRefinement

SpecNorm == InitNorm /\ [][NextNorm]_vars

\* C38: every error normalization of the Local Optimizer and of the loop-closure
\* pose solver divides by a positive count when at least one observation is
\* present, in the initial evaluation and in every iteration.
C38_DivisorPositive == ms.n_pt + ms.n_ls > 0 => ms.h_div_ok

====
